---------------------------- MODULE Spec2Model ----------------------------
(***************************************************************************)
(* Model of the matchup/ranking aggregation engine of NFL-Matchups.        *)
(*                                                                         *)
(* nfl_app.py (run) is a Streamlit script: the loaded tables stats_df and  *)
(* schedule_df and the sidebar's current_week are its inputs, every        *)
(* `with tabN:` block is one step that reads its own widgets and derives   *)
(* its tables.  analysis.py is a batch script over the same tables.        *)
(*                                                                         *)
(* Conventions.                                                            *)
(*   - A team code is a number: its place in the alphabetical order of the *)
(*     team abbreviations, so t1 < t2 is "t1 sorts before t2".             *)
(*   - A measure cell of an input record is <<>> (NaN) or <<v>>.           *)
(*   - A DataFrame the code derives is [columns |-> sequence of names,     *)
(*     rows |-> sequence of functions from column name to value].          *)
(*   - Measures are integers; fantasy points are counted in whole units.   *)
(***************************************************************************)
EXTENDS Integers, Sequences, FiniteSets, TLC

\* ------------------------------------------------------------------ bounds
NumTeams == 3
NumPlayers == 2
MaxWeek == 2
MaxRecords == 2
MaxGames == 1
WideTeams == 12
WidePlayers == 17
MaxSeries == 3
MaxLegs == 2

MaxHistory == 20

SlateTeams == 6

\* -------------------------------------------------------- program constants
TopDefenses == 10
TopLeaders == 15
TopPlays == 10
HighRank == 5

\* ------------------------------------------------------------- vocabulary
Teams == 1..NumTeams
Players == 1..NumPlayers
Weeks == 1..MaxWeek

NaN == <<>>

IsNaN(cell) == cell = NaN

\* The list of measure columns get_defense_stats and get_leaders ask for.
MeasureCols ==
    <<"passing_tds", "rushing_tds", "receiving_tds", "passing_yards",
      "rushing_yards", "receiving_yards", "fantasy_points_ppr">>

\* The team-like columns, in the order the code looks for them.
TeamCols == <<"recent_team", "team", "team_abbr">>

\* Measures only analysis.py asks for.
ExtraCols == {"interceptions", "receptions"}

Range(s) == {s[i] : i \in DOMAIN s}

MeasureNames == Range(MeasureCols) \cup ExtraCols

positions ==
    [QB |-> {"QB"}, RB |-> {"RB", "FB"}, WR |-> {"WR"}, TE |-> {"TE"}]

\* Iteration order of the positions dict.
PositionNames == <<"QB", "RB", "WR", "TE">>

Min(a, b) == IF a <= b THEN a ELSE b

\* ------------------------------------------------------------ DataFrames
EmptyFrame == [columns |-> <<>>, rows |-> <<>>]

\* DataFrame.empty: any axis of length 0.
IsEmpty(frame) == Len(frame.columns) = 0 \/ Len(frame.rows) = 0

\* df[df['position'].isin(position_codes)]
isin_position(df, position_codes) ==
    SelectSeq(df, LAMBDA r : r.position \in position_codes)

\* The distinct values of a key, ascending: the group keys of groupby.
RECURSIVE SortedKeys(_)
SortedKeys(S) ==
    IF S = {} THEN <<>>
    ELSE LET m == CHOOSE x \in S : \A y \in S : x <= y
         IN <<m>> \o SortedKeys(S \ {m})

\* Series.sum() of one group: NaN cells are skipped, an all-NaN group sums to
\* 0.  GroupSumNoKey is the sum that ignores the group key.
RECURSIVE GroupSumNoKey(_, _, _)
GroupSumNoKey(df, key, col) ==
    IF df = <<>> THEN 0
    ELSE (IF IsNaN(Head(df).vals[col]) THEN 0 ELSE Head(df).vals[col][1])
         + GroupSumNoKey(Tail(df), key, col)

RECURSIVE GroupSum(_, _, _)
GroupSum(df, key, col) ==
    IF df = <<>> THEN 0
    ELSE (IF Head(df).opponent_team = key /\ ~IsNaN(Head(df).vals[col])
          THEN Head(df).vals[col][1] ELSE 0)
         + GroupSum(Tail(df), key, col)

\* Series.mean() of one group: NaN cells are skipped; the mean of s over n
\* cells is kept as the pair <<s, n>>, and a group with no cell has mean NaN.
RECURSIVE GroupCount(_, _, _)
GroupCount(df, key, col) ==
    IF df = <<>> THEN 0
    ELSE (IF Head(df).opponent_team = key /\ ~IsNaN(Head(df).vals[col]) THEN 1 ELSE 0)
         + GroupCount(Tail(df), key, col)

GroupMean(df, key, col) ==
    IF GroupCount(df, key, col) = 0 THEN NaN
    ELSE <<GroupSum(df, key, col), GroupCount(df, key, col)>>

\* col.replace('_', ' ').title()
Title(col) ==
    CASE col = "passing_tds" -> "Passing Tds"
      [] col = "rushing_tds" -> "Rushing Tds"
      [] col = "receiving_tds" -> "Receiving Tds"
      [] col = "passing_yards" -> "Passing Yards"
      [] col = "rushing_yards" -> "Rushing Yards"
      [] col = "receiving_yards" -> "Receiving Yards"
      [] col = "fantasy_points_ppr" -> "Fantasy Points Ppr"

\* 'Td' in col, for the column titles get_defense_stats produces.
HasTd(title) == title \in {"Passing Tds", "Rushing Tds", "Receiving Tds"}

\* The titles of a list of columns.
Titles(s) == [i \in DOMAIN s |-> Title(s[i])]

\* The position filter of get_defense_stats, and the filter that keeps all.
pos_stats_all(stats, position_codes) == stats

pos_stats_of(stats, position_codes) == isin_position(stats, position_codes)

\* get_defense_stats with the early return on an empty agg_dict left out
get_defense_stats_unchecked(stats, cols, position_codes) ==
    LET pos_stats == pos_stats_of(stats, position_codes)
        agg_cols == SelectSeq(MeasureCols, LAMBDA c : c \in cols)
        keys == SortedKeys({pos_stats[i].opponent_team : i \in DOMAIN pos_stats})
    IN  [columns |-> <<"Defense">> \o Titles(agg_cols),
         rows |-> [i \in DOMAIN keys |->
                     [c \in {"Defense"} \cup {Title(a) : a \in Range(agg_cols)} |->
                         IF c = "Defense" THEN keys[i]
                         ELSE LET a == CHOOSE a \in Range(agg_cols) : Title(a) = c
                              IN GroupSum(pos_stats, keys[i], a)]]]

get_defense_stats(stats, cols, position_codes) ==
    LET pos_stats == pos_stats_of(stats, position_codes)
        agg_cols == SelectSeq(MeasureCols, LAMBDA c : c \in cols)
        keys == SortedKeys({pos_stats[i].opponent_team : i \in DOMAIN pos_stats})
    IN  IF agg_cols = <<>> THEN EmptyFrame
        ELSE [columns |-> <<"Defense">> \o Titles(agg_cols),
              rows |-> [i \in DOMAIN keys |->
                          [c \in {"Defense"} \cup {Title(a) : a \in Range(agg_cols)} |->
                              IF c = "Defense" THEN keys[i]
                              ELSE LET a == CHOOSE a \in Range(agg_cols) : Title(a) = c
                                   IN GroupSum(pos_stats, keys[i], a)]]]

\* df.sort_values(col, ascending=False): the default sort is not stable, so
\* rows with equal keys may come out in any order.  All orders of the row
\* indices I that are non-increasing in key.
RECURSIVE DescOrders(_, _)
DescOrders(I, key) ==
    IF I = {} THEN {<<>>}
    ELSE LET top == {i \in I : \A j \in I : key[j] <= key[i]}
         IN UNION {{<<i>> \o s : s \in DescOrders(I \ {i}, key)} : i \in top}

Permuted(frame, p) ==
    [columns |-> frame.columns, rows |-> [k \in DOMAIN p |-> frame.rows[p[k]]]]

sort_values(frame, col) ==
    {Permuted(frame, p) :
        p \in DescOrders(DOMAIN frame.rows, [i \in DOMAIN frame.rows |-> frame.rows[i][col]])}

\* df.head(n), df.tail(n), df.iloc[::-1] on the rows; head_more keeps one
\* row more than head.
head_more(rows, n) == SubSeq(rows, 1, Min(n + 1, Len(rows)))

head(rows, n) == SubSeq(rows, 1, Min(n, Len(rows)))

tail(rows, n) == SubSeq(rows, Len(rows) - Min(n, Len(rows)) + 1, Len(rows))

Reverse(s) == [i \in DOMAIN s |-> s[Len(s) + 1 - i]]

\* defense_stats.head(10)['Defense'].tolist()
DefenseList(rows) == [i \in DOMAIN rows |-> rows[i]["Defense"]]

\* list.index(x) + 1: the 1-based place of the first x; IndexOfZeroBased is
\* list.index(x).
IndexOfZeroBased(list, x) ==
    (CHOOSE i \in DOMAIN list : list[i] = x /\ \A j \in 1..(i - 1) : list[j] # x) - 1

IndexOf(list, x) ==
    CHOOSE i \in DOMAIN list : list[i] = x /\ \A j \in 1..(i - 1) : list[j] # x

\* All ways to pick one element of F[p] for every p of F's domain.
RECURSIVE Choices(_)
Choices(F) ==
    IF DOMAIN F = {} THEN {[x \in {} |-> <<>>]}
    ELSE LET p == CHOOSE q \in DOMAIN F : TRUE
             rest == Choices([q \in DOMAIN F \ {p} |-> F[q]])
         IN {[q \in DOMAIN F |-> IF q = p THEN v ELSE r[q]] : v \in F[p], r \in rest}

\* ------------------------------------------------------------------ state
VARIABLES
    stats_df,          \* the player-game records, in table order
    columns,           \* the optional columns stats_df has
    schedule_df,       \* the scheduled games
    current_week,      \* the sidebar's week slider
    pc,                \* the block of the script that ran last
    raised,            \* whether that block ended in an uncaught exception
    position,          \* tab2: the position selectbox
    time_filter,       \* tab2 and tab4: the time radio
    sort_col,          \* tab2: the column the table is sorted on
    defense_stats,     \* tab2: the sorted defense table
    worst_defenses,    \* tab2: the rows shown as worst defenses
    best_defenses,     \* tab2: the rows shown as best defenses
    games,             \* tab3: this week's games
    weak_defenses,     \* tab3: position -> the weak-defense list
    matchup_flags,     \* tab3: the good-matchup lines shown, in order
    sort_option,       \* tab4: the leaders-by radio
    leaders,           \* tab4: position -> get_leaders' table before the sort
    leader_tables,     \* tab4: position -> the table get_leaders returns
    qb_defense,        \* analysis.py: the sorted tables of Part 1
    rb_defense,
    wr_defense,
    te_defense,
    consistency_position,  \* tab5: the position selectbox
    max_cv,            \* tab5: the largest CV, used to scale the ratings
    player_consistency,    \* tab5: the consistency table after the games filter
    metrics,           \* tab5: the players of the four metric boxes
    display_df,        \* tab5: the rows of the rankings table shown
    call,              \* BettingAnalyzer: the method called and its arguments
    returned,          \* BettingAnalyzer: what the call returned
    task_pc,           \* weak_defenses loop as tasks: position -> where its task is
    task_stats,        \* weak_defenses loop as tasks: position -> its defense_stats
    best_bets,         \* tab1: the plays found, in the order the loops append them
    best_bets_df       \* tab1: the plays sorted for display

vars == <<stats_df, columns, schedule_df, current_week, pc, raised, position,
          time_filter, sort_col, defense_stats, worst_defenses, best_defenses,
          games, weak_defenses, matchup_flags, sort_option, leaders, leader_tables,
          qb_defense, rb_defense, wr_defense, te_defense,
          consistency_position, max_cv, player_consistency, metrics, display_df,
          call, returned, task_pc, task_stats, best_bets, best_bets_df>>

inputs == <<stats_df, columns, schedule_df>>

tab1_vars == <<best_bets, best_bets_df>>

tab2_vars == <<position, sort_col, defense_stats, worst_defenses, best_defenses>>

tab3_vars == <<games, weak_defenses, matchup_flags>>

tab4_vars == <<sort_option, leaders, leader_tables>>

analysis_vars == <<qb_defense, rb_defense, wr_defense, te_defense>>

tab5_vars == <<consistency_position, max_cv, player_consistency, metrics, display_df>>

odds_vars == <<call, returned>>

task_vars == <<task_pc, task_stats>>

NoMap == [x \in {} |-> <<>>]

\* ------------------------------------------------------------- time filter
TimeFilters == {"Season Total", "Week Only", "Last 3 Weeks"}

\* The time radio of tab2 and tab4.
time_filtered(df, cols, tf, week) ==
    IF tf = "Week Only" /\ "week" \in cols
        THEN SelectSeq(df, LAMBDA r : r.vals["week"] = week)
    ELSE IF tf = "Last 3 Weeks" /\ "week" \in cols
        THEN SelectSeq(df, LAMBDA r : r.vals["week"] >= week - 2)
    ELSE df

\* ------------------------------------------------------ tab2: worst defenses
Tab2 ==
    /\ pc = "start"
    /\ \E pos \in Range(PositionNames), tf \in TimeFilters :
        LET filtered_df == time_filtered(stats_df, columns, tf, current_week)
            ds == get_defense_stats(filtered_df, columns, positions[pos])
            td_cols == SelectSeq(ds.columns, HasTd)
            \* defense_stats.columns[1] raises IndexError on a one-column table
            sc == IF td_cols # <<>> THEN td_cols[1]
                  ELSE IF Len(ds.columns) >= 2 THEN ds.columns[2]
                  ELSE "IndexError"
        IN  /\ pc' = "tab2"
            /\ position' = pos
            /\ time_filter' = tf
            /\ IF IsEmpty(ds) \/ sc = "IndexError"
                  THEN /\ defense_stats' = ds
                       /\ sort_col' = "none"
                       /\ worst_defenses' = <<>>
                       /\ best_defenses' = <<>>
                       /\ raised' = ~IsEmpty(ds)
                  ELSE \E sorted \in sort_values(ds, sc) :
                       /\ defense_stats' = sorted
                       /\ sort_col' = sc
                       /\ worst_defenses' = head(sorted.rows, TopDefenses)
                       /\ best_defenses' = Reverse(tail(sorted.rows, TopDefenses))
                       /\ raised' = FALSE
    /\ UNCHANGED <<inputs, current_week, tab1_vars, tab3_vars, tab4_vars, analysis_vars,
                   tab5_vars, odds_vars, task_vars>>

\* --------------------------------------------------- tab3: this week's games
games_of(schedule, week) ==
    SelectSeq(schedule, LAMBDA g : g.week = week /\ g.game_type = "REG")

\* The weak_defenses loop: for every position with a non-empty defense table
\* that has a touchdown column, the lists the sort can produce.
WeakCandidates(stats, cols) ==
    LET ds(p) == get_defense_stats(stats, cols, positions[p])
        td_cols(p) == SelectSeq(ds(p).columns, HasTd)
        listed == {p \in Range(PositionNames) : ~IsEmpty(ds(p)) /\ td_cols(p) # <<>>}
    IN  [p \in listed |->
            {DefenseList(head(s.rows, TopDefenses)) : s \in sort_values(ds(p), td_cols(p)[1])}]

\* The success lines of one column of a game's expander: the offense's
\* positions whose opponent is in the weak list, in dict order.
RECURSIVE SideFlags(_, _, _, _, _)
SideFlags(k, gi, offense, opponent, wd) ==
    IF k = 0 THEN <<>>
    ELSE LET p == PositionNames[k]
         IN SideFlags(k - 1, gi, offense, opponent, wd)
            \o (IF p \in DOMAIN wd /\ opponent \in Range(wd[p])
                THEN <<[game |-> gi, offense_team |-> offense, position |-> p,
                        rank |-> IndexOf(wd[p], opponent)]>>
                ELSE <<>>)

RECURSIVE GameFlags(_, _, _)
GameFlags(n, gs, wd) ==
    IF n = 0 THEN <<>>
    ELSE GameFlags(n - 1, gs, wd)
         \o SideFlags(Len(PositionNames), gs[n], gs[n].away_team, gs[n].home_team, wd)
         \o SideFlags(Len(PositionNames), gs[n], gs[n].home_team, gs[n].away_team, wd)

Tab3 ==
    /\ pc = "start"
    /\ pc' = "tab3"
    /\ raised' = FALSE
    /\ LET gs == games_of(schedule_df, current_week)
       IN /\ games' = gs
          /\ IF gs = <<>>
                THEN /\ weak_defenses' = NoMap
                     /\ matchup_flags' = <<>>
                ELSE \E wd \in Choices(WeakCandidates(stats_df, columns)) :
                     /\ weak_defenses' = wd
                     /\ matchup_flags' = GameFlags(Len(gs), gs, wd)
    /\ UNCHANGED <<inputs, current_week, time_filter, tab1_vars, tab2_vars, tab4_vars, analysis_vars, tab5_vars, odds_vars, task_vars>>

\* -------------------------------------------------------- tab4: top scorers
SortOptions == {"Touchdowns", "Yards", "Fantasy Points"}

\* rename_map of get_leaders
Renamed(col) ==
    CASE col \in Range(TeamCols) -> "Team"
      [] col = "passing_tds" -> "Pass TDs"
      [] col = "rushing_tds" -> "Rush TDs"
      [] col = "receiving_tds" -> "Rec TDs"
      [] col = "passing_yards" -> "Pass Yds"
      [] col = "rushing_yards" -> "Rush Yds"
      [] col = "receiving_yards" -> "Rec Yds"
      [] col = "fantasy_points_ppr" -> "Fantasy Pts"

RenamedAll(s) == [i \in DOMAIN s |-> Renamed(s[i])]

\* The first team-like column the table has, as a list of zero or one name.
TeamColOf(cols) ==
    LET found == SelectSeq(TeamCols, LAMBDA c : c \in cols)
    IN IF found = <<>> THEN <<>> ELSE <<found[1]>>

\* groupby(...).agg('last') of a player's rows: the value of the last row.
RECURSIVE PlayerLast(_, _, _)
PlayerLast(df, player, col) ==
    IF df = <<>> THEN NaN
    ELSE IF df[Len(df)].player_display_name = player
        THEN df[Len(df)].vals[col]
    ELSE PlayerLast(SubSeq(df, 1, Len(df) - 1), player, col)

\* fillna(0) and groupby(...).agg('sum') of a player's rows.
RECURSIVE PlayerSum(_, _, _)
PlayerSum(df, player, col) ==
    IF df = <<>> THEN 0
    ELSE (IF Head(df).player_display_name = player /\ ~IsNaN(Head(df).vals[col])
          THEN Head(df).vals[col][1] ELSE 0)
         + PlayerSum(Tail(df), player, col)

RECURSIVE SumOver(_, _)
SumOver(row, names) ==
    IF names = <<>> THEN 0 ELSE row[Head(names)] + SumOver(row, Tail(names))

\* get_leaders up to the renames: one row per player of the position.
\* leaders_needs_team is the variant that gives up without a team column.
leaders_needs_team(df, cols, pos_codes) ==
    LET pos_df == isin_position(df, pos_codes)
        team_col == TeamColOf(cols)
        sum_cols == SelectSeq(MeasureCols, LAMBDA c : c \in cols)
        td_cols == SelectSeq(sum_cols, LAMBDA c : c \in {"passing_tds", "rushing_tds", "receiving_tds"})
        yds_cols == SelectSeq(sum_cols, LAMBDA c : c \in {"passing_yards", "rushing_yards", "receiving_yards"})
        keys == SortedKeys({pos_df[i].player_display_name : i \in DOMAIN pos_df})
        agg(i) == [c \in Range(team_col) \cup Range(sum_cols) |->
                      IF c \in Range(team_col) THEN PlayerLast(pos_df, keys[i], c)
                      ELSE PlayerSum(pos_df, keys[i], c)]
        names == <<"Player">> \o RenamedAll(team_col) \o RenamedAll(sum_cols)
                 \o (IF td_cols # <<>> THEN <<"Total TDs">> ELSE <<>>)
                 \o (IF yds_cols # <<>> THEN <<"Total Yards">> ELSE <<>>)
    IN  IF pos_df = <<>> THEN EmptyFrame
        ELSE IF team_col = <<>> THEN EmptyFrame
        ELSE [columns |-> names,
              rows |-> [i \in DOMAIN keys |->
                          [n \in Range(names) |->
                              IF n = "Player" THEN keys[i]
                              ELSE IF n = "Total TDs" THEN SumOver(agg(i), td_cols)
                              ELSE IF n = "Total Yards" THEN SumOver(agg(i), yds_cols)
                              ELSE LET c == CHOOSE c \in DOMAIN agg(i) : Renamed(c) = n
                                   IN agg(i)[c]]]]

leaders_of(df, cols, pos_codes) ==
    LET pos_df == isin_position(df, pos_codes)
        team_col == TeamColOf(cols)
        sum_cols == SelectSeq(MeasureCols, LAMBDA c : c \in cols)
        td_cols == SelectSeq(sum_cols, LAMBDA c : c \in {"passing_tds", "rushing_tds", "receiving_tds"})
        yds_cols == SelectSeq(sum_cols, LAMBDA c : c \in {"passing_yards", "rushing_yards", "receiving_yards"})
        keys == SortedKeys({pos_df[i].player_display_name : i \in DOMAIN pos_df})
        agg(i) == [c \in Range(team_col) \cup Range(sum_cols) |->
                      IF c \in Range(team_col) THEN PlayerLast(pos_df, keys[i], c)
                      ELSE PlayerSum(pos_df, keys[i], c)]
        names == <<"Player">> \o RenamedAll(team_col) \o RenamedAll(sum_cols)
                 \o (IF td_cols # <<>> THEN <<"Total TDs">> ELSE <<>>)
                 \o (IF yds_cols # <<>> THEN <<"Total Yards">> ELSE <<>>)
    IN  IF pos_df = <<>> THEN EmptyFrame
        ELSE IF team_col = <<>> /\ sum_cols = <<>> THEN EmptyFrame
        ELSE [columns |-> names,
              rows |-> [i \in DOMAIN keys |->
                          [n \in Range(names) |->
                              IF n = "Player" THEN keys[i]
                              ELSE IF n = "Total TDs" THEN SumOver(agg(i), td_cols)
                              ELSE IF n = "Total Yards" THEN SumOver(agg(i), yds_cols)
                              ELSE LET c == CHOOSE c \in DOMAIN agg(i) : Renamed(c) = n
                                   IN agg(i)[c]]]]

\* The variant of the end of get_leaders that truncates without sorting.
get_leaders_unsorted(table, option) ==
    {[columns |-> table.columns, rows |-> head(table.rows, TopLeaders)]}

\* The sort and the truncation that end get_leaders.
get_leaders(table, option) ==
    LET want == CASE option = "Touchdowns" -> "Total TDs"
                  [] option = "Yards" -> "Total Yards"
                  [] OTHER -> "Fantasy Pts"
        sc == IF want \in Range(table.columns) THEN want ELSE table.columns[2]
    IN  IF IsEmpty(table) THEN {table}
        ELSE {[columns |-> s.columns, rows |-> head(s.rows, TopLeaders)] :
                 s \in sort_values(table, sc)}

\* The table df after get_leaders has run on it.  get_leaders fills the
\* nulls of pos_df, which is a copy of the rows of its position: df keeps
\* its nulls.  fill_in_place is the variant in which the fill reaches df.
fill_in_place(df, cols) ==
    [i \in DOMAIN df |->
        [df[i] EXCEPT !.vals = [c \in DOMAIN @ |->
            IF c \in Range(MeasureCols) /\ IsNaN(@[c]) THEN <<0>> ELSE @[c]]]]

fill_in_copy(df, cols) == df

Tab4 ==
    /\ pc = "start"
    /\ pc' = "tab4"
    /\ raised' = FALSE
    /\ \E tf \in TimeFilters, option \in SortOptions :
        LET filtered_leaders_df == time_filtered(stats_df, columns, tf, current_week)
            table == [p \in Range(PositionNames) |->
                         leaders_of(filtered_leaders_df, columns, positions[p])]
        IN  /\ time_filter' = tf
            /\ sort_option' = option
            /\ leaders' = table
            /\ \E result \in Choices([p \in Range(PositionNames) |->
                                         get_leaders(table[p], option)]) :
                  leader_tables' = result
    /\ stats_df' = fill_in_copy(stats_df, columns)
    /\ UNCHANGED <<columns, schedule_df, current_week, tab1_vars, tab2_vars, tab3_vars, analysis_vars,
                   tab5_vars, odds_vars, task_vars>>

\* ----------------------------------------------- analysis.py: Part 1 tables
\* The stat_columns dicts of the four calls, in dict order.
StatColumns ==
    [QB |-> << <<"passing_yards", <<"sum", "mean">> >>,
               <<"passing_tds", <<"sum", "mean">> >>,
               <<"interceptions", <<"sum">> >>,
               <<"fantasy_points_ppr", <<"sum", "mean">> >> >>,
     RB |-> << <<"rushing_yards", <<"sum", "mean">> >>,
               <<"rushing_tds", <<"sum", "mean">> >>,
               <<"receptions", <<"sum", "mean">> >>,
               <<"receiving_yards", <<"sum", "mean">> >>,
               <<"receiving_tds", <<"sum">> >>,
               <<"fantasy_points_ppr", <<"sum", "mean">> >> >>,
     WR |-> << <<"receptions", <<"sum", "mean">> >>,
               <<"receiving_yards", <<"sum", "mean">> >>,
               <<"receiving_tds", <<"sum", "mean">> >>,
               <<"fantasy_points_ppr", <<"sum", "mean">> >> >>,
     TE |-> << <<"receptions", <<"sum", "mean">> >>,
               <<"receiving_yards", <<"sum", "mean">> >>,
               <<"receiving_tds", <<"sum", "mean">> >>,
               <<"fantasy_points_ppr", <<"sum", "mean">> >> >>]

\* The (column, aggregation) pairs of a stat_columns dict, flattened in order.
RECURSIVE AggPairs(_)
AggPairs(stat_columns) ==
    IF stat_columns = <<>> THEN <<>>
    ELSE [k \in DOMAIN Head(stat_columns)[2] |->
             <<Head(stat_columns)[1], Head(stat_columns)[2][k]>>]
         \o AggPairs(Tail(stat_columns))

\* col[0] + '_' + col[1]
AggName(pair) == pair[1] \o "_" \o pair[2]

AggNames(s) == [i \in DOMAIN s |-> AggName(s[i])]

\* groupby('opponent_team').agg(stat_columns): a column the table does not
\* have raises KeyError.
analyze_defense_vs_position(stats, cols, position_codes, stat_columns) ==
    LET pos_stats == isin_position(stats, position_codes)
        keys == SortedKeys({pos_stats[i].opponent_team : i \in DOMAIN pos_stats})
        pairs == AggPairs(stat_columns)
        names == AggNames(pairs)
    IN  IF \E i \in DOMAIN stat_columns : stat_columns[i][1] \notin cols
        THEN [raised |-> TRUE, frame |-> EmptyFrame]
        ELSE [raised |-> FALSE,
              frame |->
                [columns |-> <<"Defense">> \o names,
                 rows |-> [i \in DOMAIN keys |->
                             [c \in {"Defense"} \cup Range(names) |->
                                 IF c = "Defense" THEN keys[i]
                                 ELSE LET pr == CHOOSE pr \in Range(pairs) : AggName(pr) = c
                                      IN IF pr[2] = "sum"
                                         THEN GroupSum(pos_stats, keys[i], pr[1])
                                         ELSE GroupMean(pos_stats, keys[i], pr[1])]]]]

\* One call of analyze_defense_vs_position and the sort_values that follows it.
SortedDefense(p, by) ==
    LET r == analyze_defense_vs_position(stats_df, columns, positions[p], StatColumns[p])
    IN IF r.raised THEN {r} ELSE {[raised |-> FALSE, frame |-> s] : s \in sort_values(r.frame, by)}

AnalyzeQB ==
    /\ pc = "start"
    /\ pc' = "qb_defense"
    /\ \E r \in SortedDefense("QB", "passing_tds_sum") :
          /\ raised' = r.raised
          /\ qb_defense' = r.frame
    /\ UNCHANGED <<inputs, current_week, time_filter, tab1_vars, tab2_vars, tab3_vars, tab4_vars,
                   rb_defense, wr_defense, te_defense, tab5_vars, odds_vars, task_vars>>

AnalyzeRB ==
    /\ pc = "qb_defense" /\ ~raised
    /\ pc' = "rb_defense"
    /\ \E r \in SortedDefense("RB", "fantasy_points_ppr_sum") :
          /\ raised' = r.raised
          /\ rb_defense' = r.frame
    /\ UNCHANGED <<inputs, current_week, time_filter, tab1_vars, tab2_vars, tab3_vars, tab4_vars,
                   qb_defense, wr_defense, te_defense, tab5_vars, odds_vars, task_vars>>

AnalyzeWR ==
    /\ pc = "rb_defense" /\ ~raised
    /\ pc' = "wr_defense"
    /\ \E r \in SortedDefense("WR", "receiving_tds_sum") :
          /\ raised' = r.raised
          /\ wr_defense' = r.frame
    /\ UNCHANGED <<inputs, current_week, time_filter, tab1_vars, tab2_vars, tab3_vars, tab4_vars,
                   qb_defense, rb_defense, te_defense, tab5_vars, odds_vars, task_vars>>

AnalyzeTE ==
    /\ pc = "wr_defense" /\ ~raised
    /\ pc' = "te_defense"
    /\ \E r \in SortedDefense("TE", "receiving_tds_sum") :
          /\ raised' = r.raised
          /\ te_defense' = r.frame
    /\ UNCHANGED <<inputs, current_week, time_filter, tab1_vars, tab2_vars, tab3_vars, tab4_vars,
                   qb_defense, rb_defense, wr_defense, tab5_vars, odds_vars, task_vars>>

\* ------------------------------------------------------ tab5: consistency
\* The games a player needs to be listed, and the rows the rankings show.
MinGames == 3
TopConsistent == 20

\* The non-null values a player has in a column, in table order.
RECURSIVE SeriesOf(_, _, _)
SeriesOf(df, player, col) ==
    IF df = <<>> THEN <<>>
    ELSE (IF Head(df).player_display_name = player /\ ~IsNaN(Head(df).vals[col])
          THEN <<Head(df).vals[col][1]>> ELSE <<>>)
         \o SeriesOf(Tail(df), player, col)

RECURSIVE SumOf(_)
SumOf(s) == IF s = <<>> THEN 0 ELSE Head(s) + SumOf(Tail(s))

RECURSIVE SumSq(_)
SumSq(s) == IF s = <<>> THEN 0 ELSE Head(s) * Head(s) + SumSq(Tail(s))

\* The aggregations of agg: a mean is the fraction <<sum, count>>, a
\* standard deviation (ddof = 1) is kept as its square, the fraction
\* <<n*sum of squares - sum^2, n*(n - 1)>>, and is null below two values.
mean(s) == IF s = <<>> THEN NaN ELSE <<SumOf(s), Len(s)>>

std(s) ==
    IF Len(s) < 2 THEN NaN
    ELSE <<Len(s) * SumSq(s) - SumOf(s) * SumOf(s), Len(s) * (Len(s) - 1)>>

min(s) == IF s = <<>> THEN NaN ELSE <<CHOOSE x \in Range(s) : \A y \in Range(s) : x <= y>>

max(s) == IF s = <<>> THEN NaN ELSE <<CHOOSE x \in Range(s) : \A y \in Range(s) : x >= y>>

\* Floating-point results of the CV and rating arithmetic: nan, inf, or
\* the number 100 * sign * sqrt(num / den) for a CV and
\* 100 - 100 * sign * sqrt(num / den) for a rating.
NanValue == [kind |-> "nan"]

InfValue == [kind |-> "inf"]

Root(sign, num, den) == [kind |-> "num", sign |-> sign, num |-> num, den |-> den]

Sign(x) == IF x < 0 THEN -1 ELSE IF x = 0 THEN 0 ELSE 1

\* a <= b for two numbers sign * sqrt(num / den).
RootLeq(a, b) ==
    IF a.sign # b.sign THEN a.sign < b.sign
    ELSE IF a.sign = 0 THEN TRUE
    ELSE IF a.sign = 1 THEN a.num * b.den <= b.num * a.den
    ELSE a.num * b.den >= b.num * a.den

\* (StdDev / Avg) * 100
CvOf(StdDev, Avg) ==
    IF IsNaN(StdDev) \/ IsNaN(Avg) THEN NanValue
    ELSE IF Avg[1] = 0 THEN (IF StdDev[1] = 0 THEN NanValue ELSE InfValue)
    ELSE Root(IF StdDev[1] = 0 THEN 0 ELSE Sign(Avg[1]),
              StdDev[1] * Avg[2] * Avg[2], StdDev[2] * Avg[1] * Avg[1])

CvLeq(a, b) ==
    IF b.kind = "inf" THEN TRUE
    ELSE IF a.kind = "inf" THEN FALSE
    ELSE RootLeq(a, b)

\* Series.max(): the largest value that is not nan, nan when there is none.
CvMax(cvs) ==
    LET known == {c \in cvs : c.kind # "nan"}
    IN IF known = {} THEN NanValue
       ELSE CHOOSE m \in known : \A c \in known : CvLeq(c, m)

\* max_cv > 0
IsPositive(cv) == cv.kind = "inf" \/ (cv.kind = "num" /\ cv.sign = 1)

\* 100 - ((CV / max_cv) * 100)
ScaledRating(cv, m) ==
    IF cv.kind = "nan" \/ m.kind = "nan" THEN NanValue
    ELSE IF m.kind = "inf" THEN (IF cv.kind = "inf" THEN NanValue ELSE Root(0, 0, 1))
    ELSE IF m.sign = 0 THEN (IF cv.sign = 0 THEN NanValue ELSE InfValue)
    ELSE Root(cv.sign * m.sign, cv.num * m.den, cv.den * m.num)

\* The stat column tab5 analyses for a position.
stat_col_of(pos, cols) ==
    IF pos = "QB"
    THEN (IF "passing_yards" \in cols THEN "passing_yards" ELSE "fantasy_points_ppr")
    ELSE (IF "fantasy_points_ppr" \in cols THEN "fantasy_points_ppr" ELSE "receiving_yards")

\* The consistency table of the players of pos_df, before the games
\* filter: groupby, agg, CV, max_cv and the rating.  With guarded, the
\* rating is 100 for every player unless max_cv > 0.
consistency_rows(pos_df, stat_col, guarded) ==
    LET keys == SortedKeys({pos_df[i].player_display_name : i \in DOMAIN pos_df})
        vals(i) == SeriesOf(pos_df, keys[i], stat_col)
        cv(i) == CvOf(std(vals(i)), mean(vals(i)))
        m == CvMax({cv(i) : i \in DOMAIN keys})
    IN [i \in DOMAIN keys |->
           [Player |-> keys[i], Avg |-> mean(vals(i)), StdDev |-> std(vals(i)),
            Games |-> Len(vals(i)), Min |-> min(vals(i)), Max |-> max(vals(i)),
            CV |-> cv(i)]
           @@ ("Consistency Rating" :>
                  IF guarded /\ ~IsPositive(m) THEN Root(0, 0, 1)
                  ELSE ScaledRating(cv(i), m))]

max_cv_of(pos_df, stat_col) ==
    LET keys == {pos_df[i].player_display_name : i \in DOMAIN pos_df}
    IN CvMax({CvOf(std(SeriesOf(pos_df, k, stat_col)), mean(SeriesOf(pos_df, k, stat_col))) :
                 k \in keys})

\* The variant of the games filter that keeps every player.
games_filter_none(rows) == rows

\* player_consistency[player_consistency['Games'] >= 3]
games_filter(rows) == SelectSeq(rows, LAMBDA r : r["Games"] >= MinGames)

\* Whether a cell of a column of the consistency table is null, and
\* whether cell a is at least cell b.
ColNull(col, v) ==
    IF col = "Consistency Rating" THEN v.kind = "nan" ELSE IsNaN(v)

ColGeq(col, a, b) ==
    IF col = "Consistency Rating"
        THEN (IF a.kind = "inf" THEN TRUE
              ELSE IF b.kind = "inf" THEN FALSE
              ELSE RootLeq(a, b))
    ELSE IF col = "Avg" THEN a[1] * b[2] >= b[1] * a[2]
    ELSE a[1] >= b[1]

\* rows.nlargest(1, col).iloc[0] on a table with rows: the first of the
\* rows with the largest cell, nulls after every number.
nlargest_first(rows, col) ==
    LET known == {i \in DOMAIN rows : ~ColNull(col, rows[i][col])}
        best == {i \in known : \A j \in known : ColGeq(col, rows[i][col], rows[j][col])}
    IN IF known = {} THEN rows[1]
       ELSE rows[CHOOSE i \in best : \A j \in best : i <= j]

\* rows.sort_values(col, ascending=False): rows with equal cells in any
\* order, rows with a null cell last in table order.
RECURSIVE ColOrders(_, _, _)
ColOrders(rows, I, col) ==
    IF I = {} THEN {<<>>}
    ELSE LET known == {i \in I : ~ColNull(col, rows[i][col])}
             top == IF known = {} THEN {CHOOSE i \in I : \A j \in I : i <= j}
                    ELSE {i \in known : \A j \in known : ColGeq(col, rows[i][col], rows[j][col])}
         IN UNION {{<<i>> \o o : o \in ColOrders(rows, I \ {i}, col)} : i \in top}

sorted_rows(rows, col) ==
    {[k \in DOMAIN o |-> rows[o[k]]] : o \in ColOrders(rows, DOMAIN rows, col)}

\* The consistency tab of nfl_app.py.
Tab5 ==
    /\ pc = "start"
    /\ pc' = "tab5"
    /\ raised' = FALSE
    /\ \E pos \in Range(PositionNames) :
        LET pos_df == isin_position(stats_df, positions[pos])
            stat_col == stat_col_of(pos, columns)
            table == games_filter(consistency_rows(pos_df, stat_col, TRUE))
        IN  /\ consistency_position' = pos
            /\ IF pos_df = <<>> \/ stat_col \notin columns
               THEN /\ max_cv' = NanValue
                    /\ player_consistency' = <<>>
                    /\ metrics' = NoMap
                    /\ display_df' = <<>>
               ELSE /\ max_cv' = max_cv_of(pos_df, stat_col)
                    /\ player_consistency' = table
                    /\ metrics' = IF table = <<>> THEN NoMap
                                  ELSE [c \in {"Consistency Rating", "Avg", "Min", "Max"} |->
                                           nlargest_first(table, c)["Player"]]
                    /\ display_df' \in {head(t, TopConsistent) :
                                           t \in sorted_rows(table, "Consistency Rating")}
    /\ UNCHANGED <<inputs, current_week, time_filter, tab1_vars, tab2_vars, tab3_vars, tab4_vars,
                   analysis_vars, odds_vars, task_vars>>

\* The Floor, Ceiling and Range columns of pages/1_NFL.py.
with_floor(rows) ==
    [i \in DOMAIN rows |->
        rows[i] @@ [Floor |-> rows[i]["Min"], Ceiling |-> rows[i]["Max"],
                    Range |-> <<rows[i]["Max"][1] - rows[i]["Min"][1]>>]]

ConsistencySorts ==
    [o \in {"Most Consistent", "Highest Average", "Highest Floor", "Highest Ceiling"} |->
        CASE o = "Most Consistent" -> "Consistency Rating"
          [] o = "Highest Average" -> "Avg"
          [] o = "Highest Floor" -> "Floor"
          [] o = "Highest Ceiling" -> "Ceiling"]

\* The consistency tab of pages/1_NFL.py: the rating is scaled whatever
\* max_cv is, and the metric boxes take the first row of the table.
PageTab4 ==
    /\ pc = "start"
    /\ pc' = "page_tab4"
    /\ \E pos \in Range(PositionNames), sort_by_consistency \in DOMAIN ConsistencySorts :
        LET pos_df == isin_position(stats_df, positions[pos])
            stat_col == stat_col_of(pos, columns)
            table == with_floor(games_filter(consistency_rows(pos_df, stat_col, FALSE)))
        IN  /\ consistency_position' = pos
            /\ IF pos_df = <<>> \/ stat_col \notin columns
               THEN /\ raised' = FALSE
                    /\ max_cv' = NanValue
                    /\ player_consistency' = <<>>
                    /\ metrics' = NoMap
                    /\ display_df' = <<>>
               ELSE /\ max_cv' = max_cv_of(pos_df, stat_col)
                    /\ player_consistency' = table
                    /\ IF table = <<>>
                       THEN /\ raised' = TRUE
                            /\ metrics' = NoMap
                            /\ display_df' = <<>>
                       ELSE /\ raised' = FALSE
                            /\ metrics' = [c \in {"Consistency Rating", "Avg", "Floor", "Ceiling"} |->
                                              nlargest_first(table, c)["Player"]]
                            /\ display_df' \in {head(t, TopConsistent) :
                                   t \in sorted_rows(table, ConsistencySorts[sort_by_consistency])}
    /\ UNCHANGED <<inputs, current_week, time_filter, tab1_vars, tab2_vars, tab3_vars, tab4_vars,
                   analysis_vars, odds_vars, task_vars>>

\* ------------------------------------------------- betting_analyzer.py
\* Numbers of the odds arithmetic are exact fractions <<numerator,
\* denominator>> in lowest terms with a positive denominator.
RECURSIVE Gcd(_, _)
Gcd(a, b) == IF b = 0 THEN a ELSE Gcd(b, a % b)

Abs(x) == IF x < 0 THEN -x ELSE x

Frac(n, d) ==
    LET g == Gcd(Abs(n), Abs(d))
        sgn == IF d < 0 THEN -1 ELSE 1
    IN <<(sgn * n) \div g, (sgn * d) \div g>>

Whole(n) == <<n, 1>>

FAdd(x, y) == Frac(x[1] * y[2] + y[1] * x[2], x[2] * y[2])

FSub(x, y) == Frac(x[1] * y[2] - y[1] * x[2], x[2] * y[2])

FMul(x, y) == Frac(x[1] * y[1], x[2] * y[2])

FDiv(x, y) == Frac(x[1] * y[2], x[2] * y[1])

FLeq(x, y) == x[1] * y[2] <= y[1] * x[2]

FLess(x, y) == x[1] * y[2] < y[1] * x[2]

\* What a method call gives back: a value, or an exception.
Returns(v) == [kind |-> "value", value |-> v]

Raises(e) == [kind |-> "raised", error |-> e]

\* The variant of calculate_implied_probability that treats every price as
\* an underdog price.
implied_probability_underdog(american_odds) ==
    Returns(FMul(Frac(100, Abs(american_odds) + 100), Whole(100)))

calculate_implied_probability(american_odds) ==
    LET implied_prob == IF american_odds < 0
                        THEN Frac(-american_odds, -american_odds + 100)
                        ELSE Frac(100, american_odds + 100)
    IN Returns(FMul(implied_prob, Whole(100)))

\* calculate_implied_probability with the else branch taken for every
\* odds value.
implied_of_underdog(american_odds) ==
    Returns(FMul(FDiv(Whole(100), FAdd(american_odds, Whole(100))), Whole(100)))

\* calculate_implied_probability for odds that are not a whole number, as
\* the combined odds of a parlay are.
implied_of(american_odds) ==
    LET implied_prob == IF FLess(american_odds, Whole(0))
                        THEN FDiv(FSub(Whole(0), american_odds),
                                  FAdd(FSub(Whole(0), american_odds), Whole(100)))
                        ELSE FDiv(Whole(100), FAdd(american_odds, Whole(100)))
    IN Returns(FMul(implied_prob, Whole(100)))

\* calculate_ev without the stake lost on a losing bet.
ev_profit_only(win_probability, american_odds, stake) ==
    LET potential_profit == IF american_odds < 0
                            THEN FMul(stake, Frac(100, Abs(american_odds)))
                            ELSE FMul(stake, Frac(american_odds, 100))
    IN Returns(FMul(win_probability, potential_profit))

calculate_ev(win_probability, american_odds, stake) ==
    LET potential_profit == IF american_odds < 0
                            THEN FMul(stake, Frac(100, Abs(american_odds)))
                            ELSE FMul(stake, Frac(american_odds, 100))
    IN Returns(FSub(FMul(win_probability, potential_profit),
                    FMul(FSub(Whole(1), win_probability), stake)))

\* 1 + 100 / abs(odds) for negative odds, 1 + odds / 100 otherwise.
decimal_of(odds) ==
    IF odds < 0 THEN FAdd(Whole(1), Frac(100, Abs(odds)))
    ELSE FAdd(Whole(1), Frac(odds, 100))

\* The variant of kelly_criterion that scales the stake without the
\* clamp at 0.
kelly_unclamped(win_prob, american_odds, bankroll, kelly_fraction) ==
    LET b == FSub(decimal_of(american_odds), Whole(1))
        q == FSub(Whole(1), win_prob)
    IN IF b[1] = 0 THEN Raises("ZeroDivisionError")
       ELSE Returns(FMul(bankroll,
                FMul(FDiv(FSub(FMul(b, win_prob), q), b), kelly_fraction)))

kelly_criterion(win_prob, american_odds, bankroll, kelly_fraction) ==
    LET b == FSub(decimal_of(american_odds), Whole(1))
        p == win_prob
        q == FSub(Whole(1), p)
    IN IF b[1] = 0 THEN Raises("ZeroDivisionError")
       ELSE LET kelly_percentage == FMul(FDiv(FSub(FMul(b, p), q), b), kelly_fraction)
            IN Returns(FMul(bankroll,
                            IF FLeq(kelly_percentage, Whole(0)) THEN Whole(0)
                            ELSE kelly_percentage))

\* The products the loop of parlay_calculator builds.
\* The variant of the decimal product that keeps the last leg only.
last_decimal(bets) ==
    IF bets = <<>> THEN Whole(1) ELSE decimal_of(bets[Len(bets)])

RECURSIVE combined_decimal(_)
combined_decimal(bets) ==
    IF bets = <<>> THEN Whole(1)
    ELSE FMul(combined_decimal(SubSeq(bets, 1, Len(bets) - 1)), decimal_of(bets[Len(bets)]))

\* The variant of the probability product that keeps the last leg only.
last_implied(bets) ==
    IF bets = <<>> THEN Whole(1)
    ELSE FDiv(calculate_implied_probability(bets[Len(bets)]).value, Whole(100))

RECURSIVE combined_implied(_)
combined_implied(bets) ==
    IF bets = <<>> THEN Whole(1)
    ELSE FMul(combined_implied(SubSeq(bets, 1, Len(bets) - 1)),
              FDiv(calculate_implied_probability(bets[Len(bets)]).value, Whole(100)))

\* parlay_calculator with the conversion to American odds skipped when
\* the combined decimal odds are 1.
parlay_calculator_guarded(bets) ==
    LET combined_decimal_odds == combined_decimal(bets)
        combined_prob == combined_implied(bets)
        profit == FSub(combined_decimal_odds, Whole(1))
    IN Returns([combined_odds |-> IF FLeq(Whole(2), combined_decimal_odds)
                                  THEN FMul(profit, Whole(100))
                                  ELSE IF profit[1] = 0 THEN Whole(0)
                                  ELSE FDiv(Whole(-100), profit),
                decimal_odds |-> combined_decimal_odds,
                implied_probability |-> FMul(combined_prob, Whole(100)),
                payout_100 |-> FMul(profit, Whole(100))])

parlay_calculator(bets) ==
    LET combined_decimal_odds == combined_decimal(bets)
        combined_prob == combined_implied(bets)
        profit == FSub(combined_decimal_odds, Whole(1))
    IN IF FLeq(Whole(2), combined_decimal_odds)
       THEN Returns([combined_odds |-> FMul(profit, Whole(100)),
                     decimal_odds |-> combined_decimal_odds,
                     implied_probability |-> FMul(combined_prob, Whole(100)),
                     payout_100 |-> FMul(profit, Whole(100))])
       ELSE IF profit[1] = 0 THEN Raises("ZeroDivisionError")
       ELSE Returns([combined_odds |-> FDiv(Whole(-100), profit),
                     decimal_odds |-> combined_decimal_odds,
                     implied_probability |-> FMul(combined_prob, Whole(100)),
                     payout_100 |-> FMul(profit, Whole(100))])

\* prop_bet_analysis reads one column of the player's games: a history is
\* the sequence of that column's cells, one per game.
ReturnsNone == [kind |-> "none"]

\* The values of a history that are not null.
RECURSIVE Values(_)
Values(cells) ==
    IF cells = <<>> THEN <<>>
    ELSE (IF IsNaN(Head(cells)) THEN <<>> ELSE <<Head(cells)[1]>>) \o Values(Tail(cells))

\* The variant of the count that takes a value equal to the line as over.
RECURSIVE over_count_at_least(_, _)
over_count_at_least(cells, prop_line) ==
    IF cells = <<>> THEN 0
    ELSE (IF ~IsNaN(Head(cells)) /\ FLeq(prop_line, Whole(Head(cells)[1])) THEN 1 ELSE 0)
         + over_count_at_least(Tail(cells), prop_line)

\* (player_stats[stat_type] > prop_line).sum(): a null compares False.
RECURSIVE over_count(_, _)
over_count(cells, prop_line) ==
    IF cells = <<>> THEN 0
    ELSE (IF ~IsNaN(Head(cells)) /\ FLess(prop_line, Whole(Head(cells)[1])) THEN 1 ELSE 0)
         + over_count(Tail(cells), prop_line)

prop_bet_analysis(player_stats, prop_line) ==
    IF player_stats = <<>> THEN ReturnsNone
    ELSE LET total_games == Len(player_stats)
             over_prob == Frac(over_count(player_stats, prop_line), total_games)
             avg_stat == mean(Values(player_stats))
             recent_avg == mean(Values(tail(player_stats, 5)))
             std_dev == std(Values(player_stats))
         IN Returns([over_probability |-> FMul(over_prob, Whole(100)),
                     under_probability |-> FMul(FSub(Whole(1), over_prob), Whole(100)),
                     season_average |-> avg_stat,
                     recent_average |-> recent_avg,
                     \* 100 - (std_dev / avg_stat * 100), kept as the amount below 100
                     consistency_score |->
                         IF ~IsNaN(avg_stat) /\ avg_stat[1] > 0
                         THEN [hundred_less |-> CvOf(std_dev, avg_stat)]
                         ELSE [hundred_less |-> Root(1, 1, 1)],
                     games_analyzed |-> total_games,
                     times_over |-> over_count(player_stats, prop_line),
                     times_under |-> total_games - over_count(player_stats, prop_line),
                     recommendation |->
                         IF FLess(Frac(55, 100), over_prob) THEN "OVER"
                         ELSE IF FLess(over_prob, Frac(45, 100)) THEN "UNDER"
                         ELSE "PASS"])

\* The arguments the methods are called with.
OddsPool == {-300, -110, -100, 0, 100, 130}

WinProbs == {Whole(0), Frac(1, 2), Frac(55, 100), Whole(1)}

Stakes == {Whole(50), Whole(100)}

Bankrolls == {Whole(0), Whole(1000)}

KellyFractions == {Frac(1, 4), Frac(1, 2), Whole(1)}

ImpliedProbability ==
    /\ pc = "start"
    /\ pc' = "betting"
    /\ \E american_odds \in OddsPool :
          /\ call' = [op |-> "calculate_implied_probability", american_odds |-> american_odds]
          /\ returned' = calculate_implied_probability(american_odds)
    /\ raised' = (returned'.kind = "raised")
    /\ UNCHANGED <<inputs, current_week, time_filter, tab1_vars, tab2_vars, tab3_vars, tab4_vars,
                   analysis_vars, tab5_vars, task_vars>>

ExpectedValue ==
    /\ pc = "start"
    /\ pc' = "betting"
    /\ \E win_probability \in WinProbs, american_odds \in OddsPool, stake \in Stakes :
          /\ call' = [op |-> "calculate_ev", win_probability |-> win_probability,
                      american_odds |-> american_odds, stake |-> stake]
          /\ returned' = calculate_ev(win_probability, american_odds, stake)
    /\ raised' = (returned'.kind = "raised")
    /\ UNCHANGED <<inputs, current_week, time_filter, tab1_vars, tab2_vars, tab3_vars, tab4_vars,
                   analysis_vars, tab5_vars, task_vars>>

KellyCriterion ==
    /\ pc = "start"
    /\ pc' = "betting"
    /\ \E win_prob \in WinProbs, american_odds \in OddsPool, bankroll \in Bankrolls,
          kelly_fraction \in KellyFractions :
          /\ call' = [op |-> "kelly_criterion", win_prob |-> win_prob,
                      american_odds |-> american_odds, bankroll |-> bankroll,
                      kelly_fraction |-> kelly_fraction]
          /\ returned' = kelly_criterion(win_prob, american_odds, bankroll, kelly_fraction)
    /\ raised' = (returned'.kind = "raised")
    /\ UNCHANGED <<inputs, current_week, time_filter, tab1_vars, tab2_vars, tab3_vars, tab4_vars,
                   analysis_vars, tab5_vars, task_vars>>

ParlayCalculator ==
    /\ pc = "start"
    /\ pc' = "betting"
    /\ \E bets \in UNION {[1..k -> OddsPool] : k \in 0..MaxLegs} :
          /\ call' = [op |-> "parlay_calculator", bets |-> bets]
          /\ returned' = parlay_calculator(bets)
    /\ raised' = (returned'.kind = "raised")
    /\ UNCHANGED <<inputs, current_week, time_filter, tab1_vars, tab2_vars, tab3_vars, tab4_vars,
                   analysis_vars, tab5_vars, task_vars>>

\* Game histories of up to MaxHistory games: games above both lines, games
\* at the whole line, games below both lines and games without a value,
\* oldest first or newest first.
Repeat(cell, n) == [i \in 1..n |-> cell]

Histories ==
    LET shapes == {s \in (0..MaxHistory) \X (0..MaxHistory) \X (0..MaxHistory) \X (0..1) :
                      s[1] + s[2] + s[3] + s[4] <= MaxHistory}
        built(s) == Repeat(<<30>>, s[1]) \o Repeat(<<25>>, s[2])
                    \o Repeat(<<20>>, s[3]) \o Repeat(NaN, s[4])
    IN {built(s) : s \in shapes} \cup {Reverse(built(s)) : s \in shapes}

PropLines == {Whole(25), Frac(51, 2)}

PropBetAnalysis ==
    /\ pc = "start"
    /\ pc' = "betting"
    /\ \E player_stats \in Histories, prop_line \in PropLines :
          /\ call' = [op |-> "prop_bet_analysis", player_stats |-> player_stats,
                      prop_line |-> prop_line]
          /\ returned' = prop_bet_analysis(player_stats, prop_line)
    /\ raised' = (returned'.kind = "raised")
    /\ UNCHANGED <<inputs, current_week, time_filter, tab1_vars, tab2_vars, tab3_vars, tab4_vars,
                   analysis_vars, tab5_vars, task_vars>>

\* The game lines tab of render_betting_tab: the two implied
\* probabilities, the expected value and the quarter-Kelly stake of the
\* favorite.  The tab stops where a call raises.
GameLines ==
    /\ pc = "start"
    /\ pc' = "game_lines"
    /\ \E favorite_odds, underdog_odds \in OddsPool, your_win_prob \in {0, 50, 55, 100},
          bankroll \in Bankrolls :
          LET kelly_bet == kelly_criterion(Frac(your_win_prob, 100), favorite_odds,
                                           bankroll, Frac(1, 4))
          IN /\ call' = [op |-> "game_lines", favorite_odds |-> favorite_odds,
                         underdog_odds |-> underdog_odds, your_win_prob |-> your_win_prob,
                         bankroll |-> bankroll]
             /\ returned' = [kind |-> kelly_bet.kind,
                             fav_implied |-> calculate_implied_probability(favorite_odds).value,
                             dog_implied |-> calculate_implied_probability(underdog_odds).value,
                             ev |-> calculate_ev(Frac(your_win_prob, 100), favorite_odds,
                                                 Whole(100)).value,
                             kelly_bet |-> kelly_bet]
             /\ raised' = (kelly_bet.kind = "raised")
    /\ UNCHANGED <<inputs, current_week, time_filter, tab1_vars, tab2_vars, tab3_vars, tab4_vars,
                   analysis_vars, tab5_vars, task_vars>>

\* ------------------------------------------------------ tab1: best bets
\* 'High' if rank <= 5 else 'Medium'; confidence_top is the variant that
\* keeps High for the first rank only.
confidence_top(rank) == IF rank <= 1 THEN "High" ELSE "Medium"

confidence(rank) == IF rank <= HighRank THEN "High" ELSE "Medium"

\* a >= b for two means <<sum, count>>.
MeanGeq(a, b) == a[1] * b[2] >= b[1] * a[2]

\* groupby('player_display_name').agg({'fantasy_points_ppr': 'mean'})
\* .nlargest(1, 'fantasy_points_ppr'): the first of the players with the
\* largest mean, in the order of the names; the first player when every
\* mean is null.
top_player(players_df) ==
    LET names == SortedKeys({players_df[i].player_display_name : i \in DOMAIN players_df})
        avg(pl) == mean(SeriesOf(players_df, pl, "fantasy_points_ppr"))
        valued == SelectSeq(names, LAMBDA pl : ~IsNaN(avg(pl)))
        best == SelectSeq(valued, LAMBDA pl : \A i \in DOMAIN valued : MeanGeq(avg(pl), avg(valued[i])))
        chosen == IF valued = <<>> THEN names[1] ELSE best[1]
    IN [player |-> chosen, avg_points |-> avg(chosen)]

\* One of the two checks of a game for a position: the defense is in the
\* weak list, the offense's players of the position are looked up by the
\* team column, and the best of them is appended.
side_bets(stats, cols, offense, defense, pos, weak_teams) ==
    IF defense \notin Range(weak_teams) THEN <<>>
    ELSE LET rank == IndexOf(weak_teams, defense)
             team_col == TeamColOf(cols)[1]
             offense_players ==
                 SelectSeq(stats, LAMBDA r : r.vals[team_col] = offense
                                             /\ r.position \in positions[pos])
         IN IF offense_players = <<>> \/ "fantasy_points_ppr" \notin cols THEN <<>>
            ELSE <<[player |-> top_player(offense_players).player,
                    team |-> offense,
                    position |-> pos,
                    opponent |-> defense,
                    def_rank |-> rank,
                    avg_points |-> top_player(offense_players).avg_points,
                    matchup_type |-> "Favorable",
                    confidence |-> confidence(rank)]>>

\* The plays of one game: the positions of weak_defenses in dict order, the
\* away team's players first.  Without a team column every position is
\* skipped.
RECURSIVE game_bets(_, _, _, _, _)
game_bets(k, stats, cols, game, wd) ==
    IF k = 0 THEN <<>>
    ELSE LET pos == PositionNames[k]
         IN game_bets(k - 1, stats, cols, game, wd)
            \o (IF pos \notin DOMAIN wd \/ TeamColOf(cols) = <<>> THEN <<>>
                ELSE side_bets(stats, cols, game.away_team, game.home_team, pos, wd[pos])
                     \o side_bets(stats, cols, game.home_team, game.away_team, pos, wd[pos]))

RECURSIVE all_bets(_, _, _, _, _)
all_bets(n, stats, cols, gs, wd) ==
    IF n = 0 THEN <<>>
    ELSE all_bets(n - 1, stats, cols, gs, wd)
         \o game_bets(Len(PositionNames), stats, cols, gs[n], wd)

\* sort_values(['def_rank', 'avg_points'], ascending=[True, False]): a sort
\* on two keys keeps the order of equal rows, and a null average comes
\* last within its rank.
BetBefore(a, b) ==
    \/ a.def_rank < b.def_rank
    \/ /\ a.def_rank = b.def_rank
       /\ ~IsNaN(a.avg_points)
       /\ IsNaN(b.avg_points) \/ ~MeanGeq(b.avg_points, a.avg_points)

RECURSIVE InsertBet(_, _)
InsertBet(x, s) ==
    IF s = <<>> THEN <<x>>
    ELSE IF BetBefore(x, Head(s)) THEN <<x>> \o s
    ELSE <<Head(s)>> \o InsertBet(x, Tail(s))

RECURSIVE sort_bets(_)
sort_bets(bets) ==
    IF bets = <<>> THEN <<>>
    ELSE InsertBet(bets[Len(bets)], sort_bets(SubSeq(bets, 1, Len(bets) - 1)))

Tab1 ==
    /\ pc = "start"
    /\ pc' = "tab1"
    /\ raised' = FALSE
    /\ LET gs == games_of(schedule_df, current_week)
       IN /\ games' = gs
          /\ IF gs = <<>>
                THEN /\ weak_defenses' = NoMap
                     /\ best_bets' = <<>>
                     /\ best_bets_df' = <<>>
                ELSE \E wd \in Choices(WeakCandidates(stats_df, columns)) :
                     /\ weak_defenses' = wd
                     /\ best_bets' = all_bets(Len(gs), stats_df, columns, gs, wd)
                     /\ best_bets_df' = sort_bets(best_bets')
    /\ UNCHANGED <<inputs, current_week, time_filter, tab2_vars, matchup_flags, tab4_vars,
                   analysis_vars, tab5_vars, odds_vars, task_vars>>

\* ------------------------------- the weak_defenses loop as one task each
\* The body of the weak_defenses loop, run for the four positions as
\* tasks that take their steps in any order: first the call of
\* get_defense_stats, then the sort and the store into weak_defenses.
\* Each task keeps its defense_stats to itself; frame_of_first is the
\* variant in which a task sorts the table of the first position.
frame_of_first(frames, p) == frames[PositionNames[1]]

frame_of(frames, p) == frames[p]

StartTasks ==
    /\ pc = "start"
    /\ games_of(schedule_df, current_week) # <<>>
    /\ pc' = "tasks"
    /\ raised' = FALSE
    /\ games' = games_of(schedule_df, current_week)
    /\ weak_defenses' = NoMap
    /\ task_pc' = [p \in Range(PositionNames) |-> "ready"]
    /\ task_stats' = [p \in Range(PositionNames) |-> EmptyFrame]
    /\ UNCHANGED <<inputs, current_week, time_filter, tab1_vars, tab2_vars, matchup_flags, tab4_vars,
                   analysis_vars, tab5_vars, odds_vars>>

TaskStats ==
    /\ pc = "tasks"
    /\ \E p \in Range(PositionNames) :
          /\ task_pc[p] = "ready"
          /\ task_stats' = [task_stats EXCEPT
                               ![p] = get_defense_stats(stats_df, columns, positions[p])]
          /\ task_pc' = [task_pc EXCEPT ![p] = "computed"]
    /\ UNCHANGED <<inputs, current_week, pc, raised, time_filter, tab1_vars, tab2_vars, tab3_vars,
                   tab4_vars, analysis_vars, tab5_vars, odds_vars>>

TaskStore ==
    /\ pc = "tasks"
    /\ \E p \in Range(PositionNames) :
          /\ task_pc[p] = "computed"
          /\ task_pc' = [task_pc EXCEPT ![p] = "done"]
          /\ LET defense_stats_p == frame_of(task_stats, p)
                 td_cols == SelectSeq(defense_stats_p.columns, HasTd)
             IN IF IsEmpty(defense_stats_p) \/ td_cols = <<>>
                THEN weak_defenses' = weak_defenses
                ELSE \E sorted \in sort_values(defense_stats_p, td_cols[1]) :
                        weak_defenses' =
                            [q \in DOMAIN weak_defenses \cup {p} |->
                                IF q = p THEN DefenseList(head(sorted.rows, TopDefenses))
                                ELSE weak_defenses[q]]
    /\ UNCHANGED <<inputs, current_week, pc, raised, time_filter, tab1_vars, tab2_vars, games,
                   matchup_flags, tab4_vars, analysis_vars, tab5_vars, odds_vars, task_stats>>

\* ------------------------------------------------------- rerun of the script
\* A rerun of either script starts from the loaded tables: every derived
\* table is computed afresh.
Rerun ==
    /\ pc # "start"
    /\ pc' = "start"
    /\ raised' = FALSE
    /\ position' = "none"
    /\ time_filter' = "none"
    /\ sort_col' = "none"
    /\ defense_stats' = EmptyFrame
    /\ worst_defenses' = <<>>
    /\ best_defenses' = <<>>
    /\ games' = <<>>
    /\ weak_defenses' = NoMap
    /\ matchup_flags' = <<>>
    /\ sort_option' = "none"
    /\ leaders' = NoMap
    /\ leader_tables' = NoMap
    /\ qb_defense' = EmptyFrame
    /\ rb_defense' = EmptyFrame
    /\ wr_defense' = EmptyFrame
    /\ te_defense' = EmptyFrame
    /\ consistency_position' = "none"
    /\ max_cv' = NanValue
    /\ player_consistency' = <<>>
    /\ metrics' = NoMap
    /\ display_df' = <<>>
    /\ call' = <<>>
    /\ returned' = NaN
    /\ task_pc' = NoMap
    /\ task_stats' = NoMap
    /\ best_bets' = <<>>
    /\ best_bets_df' = <<>>
    /\ UNCHANGED <<inputs, current_week>>

Analyze == AnalyzeQB \/ AnalyzeRB \/ AnalyzeWR \/ AnalyzeTE

Next == Tab2 \/ Tab3 \/ Tab4 \/ Tab5 \/ Analyze \/ Rerun

NextDefense == Tab2 \/ Analyze \/ Rerun

NextMatchups == Tab3 \/ Rerun

NextRankings == Tab2 \/ Tab3 \/ Rerun

NextLeaders == Tab4 \/ Rerun

NextConsistency == Tab5 \/ PageTab4 \/ Rerun

NextTasks == StartTasks \/ TaskStats \/ TaskStore \/ Rerun

NextOdds ==
    ImpliedProbability \/ ExpectedValue \/ KellyCriterion \/ ParlayCalculator \/ GameLines \/ Rerun

NextProps == PropBetAnalysis \/ Rerun

NextBets == Tab1 \/ Rerun

\* ------------------------------------------------------------------ inputs
Cells == {NaN, <<1>>, <<2>>}

Flip(cell) == IF IsNaN(cell) THEN <<1>> ELSE <<3 - cell[1]>>

\* A measure vector: the three touchdown cells, the yards of each kind
\* running against its touchdowns, and the fantasy points.
Vec(pt, rt, ct) ==
    [c \in MeasureNames |->
        CASE c = "passing_tds" -> pt
          [] c = "rushing_tds" -> rt
          [] c = "receiving_tds" -> ct
          [] c = "passing_yards" -> Flip(pt)
          [] c = "rushing_yards" -> Flip(rt)
          [] c = "receiving_yards" -> Flip(ct)
          [] c = "fantasy_points_ppr" -> IF IsNaN(pt) THEN ct ELSE pt
          [] OTHER -> <<1>>]

MkRec(player, pos, tm, opp, week, vec, cols) ==
    [player_display_name |-> player, position |-> pos, opponent_team |-> opp,
     vals |-> [c \in cols |->
                 IF c \in Range(TeamCols) THEN tm
                 ELSE IF c = "week" THEN week
                 ELSE vec[c]]]

\* Weeks 1..MaxWeek are the regular season; a later week is a playoff week.
MkGame(week, home, away) ==
    [week |-> week, game_type |-> IF week <= MaxWeek THEN "REG" ELSE "POST",
     home_team |-> home, away_team |-> away]

SeqsUpTo(S, n) == UNION {[1..k -> S] : k \in 0..n}

\* No team plays twice in a week.
ValidSchedule(s) ==
    \A i, j \in DOMAIN s :
        i # j /\ s[i].week = s[j].week =>
            {s[i].home_team, s[i].away_team} \cap {s[j].home_team, s[j].away_team} = {}

\* The (home, away) pairs of distinct teams.
Pairings == {g \in Teams \X Teams : g[1] # g[2]}

FullSchema == MeasureNames \cup {"recent_team", "week"}

SchemaPool ==
    {FullSchema,
     {"rushing_tds", "receiving_tds", "rushing_yards", "team", "week"},
     {"rushing_yards", "fantasy_points_ppr", "week"},
     {"team_abbr"},
     {}}

InitDerived ==
    /\ pc = "start"
    /\ raised = FALSE
    /\ position = "none"
    /\ time_filter = "none"
    /\ sort_col = "none"
    /\ defense_stats = EmptyFrame
    /\ worst_defenses = <<>>
    /\ best_defenses = <<>>
    /\ games = <<>>
    /\ weak_defenses = NoMap
    /\ matchup_flags = <<>>
    /\ sort_option = "none"
    /\ leaders = NoMap
    /\ leader_tables = NoMap
    /\ qb_defense = EmptyFrame
    /\ rb_defense = EmptyFrame
    /\ wr_defense = EmptyFrame
    /\ te_defense = EmptyFrame
    /\ consistency_position = "none"
    /\ max_cv = NanValue
    /\ player_consistency = <<>>
    /\ metrics = NoMap
    /\ display_df = <<>>
    /\ call = <<>>
    /\ returned = NaN
    /\ task_pc = NoMap
    /\ task_stats = NoMap
    /\ best_bets = <<>>
    /\ best_bets_df = <<>>

\* Tables that vary the positions, the opponents and the cells.
InitValues ==
    /\ columns = FullSchema
    /\ current_week = 1
    /\ schedule_df = <<>>
    /\ stats_df \in SeqsUpTo({MkRec(1, pos, 1, opp, 1, Vec(a, <<1>>, Flip(a)), FullSchema) :
                                 pos \in {"QB", "FB", "K"}, opp \in Teams, a \in Cells},
                             MaxRecords)

\* Tables that vary the weeks of the records and the selected week.
InitWeeks ==
    /\ columns = FullSchema
    /\ current_week \in Weeks
    /\ schedule_df = <<>>
    /\ stats_df \in SeqsUpTo({MkRec(1, "QB", 1, opp, w, Vec(<<1>>, <<1>>, NaN), FullSchema) :
                                 opp \in Teams, w \in Weeks}, MaxRecords)

\* Tables that vary the columns present.
InitColumns ==
    /\ columns \in SchemaPool
    /\ current_week = 1
    /\ schedule_df = <<>>
    /\ stats_df \in SeqsUpTo({MkRec(1, pos, 1, opp, 1, Vec(<<1>>, <<2>>, NaN), columns) :
                                 pos \in {"QB", "K"}, opp \in Teams}, MaxRecords)

\* Tables and schedules that vary the columns present and the week's game.
InitSchemas ==
    /\ columns \in SchemaPool
    /\ current_week = 1
    /\ schedule_df \in {<<>>} \cup {<<MkGame(1, g[1], g[2])>> : g \in Pairings}
    /\ stats_df \in SeqsUpTo({MkRec(1, pos, 1, opp, 1, Vec(<<1>>, <<2>>, NaN), columns) :
                                 pos \in {"QB", "K"}, opp \in Teams}, MaxRecords)

\* The records against teams t, t - 1, ..., 1: a receiver record where
\* wr[t] > 0, with wr[t] touchdowns, and a quarterback record where qb[t] > 0,
\* with t touchdowns.
RECURSIVE AgainstTeams(_, _, _)
AgainstTeams(t, wr, qb) ==
    IF t = 0 THEN <<>>
    ELSE (IF wr[t] > 0
          THEN <<MkRec(1, "WR", 1, t, 1, Vec(<<wr[t]>>, <<1>>, <<wr[t]>>), FullSchema)>>
          ELSE <<>>)
         \o (IF qb[t] > 0
             THEN <<MkRec(2, "QB", 2, t, 1, Vec(<<t>>, <<1>>, NaN), FullSchema)>>
             ELSE <<>>)
         \o AgainstTeams(t - 1, wr, qb)

\* Tables of quarterbacks and receivers against schedules: the games of
\* week 1, with or without a game of another week after them.
InitMatchups ==
    /\ columns = FullSchema
    /\ current_week = 1
    /\ \E s \in {s \in SeqsUpTo({MkGame(1, g[1], g[2]) : g \in Pairings}, MaxGames) :
                    ValidSchedule(s)} :
          schedule_df \in {s, s \o <<MkGame(MaxWeek, 2, 1)>>}
    /\ \E wr \in [Teams -> 0..2], qb \in [Teams -> 0..1] :
          stats_df = AgainstTeams(NumTeams, wr, qb)

\* A league of n teams, each with one receiver record against it: the first
\* n - 3 teams allow t + 2 touchdowns, the last three vary.
WideTable(n, f, cols) ==
    [k \in 1..n |->
        LET t == n + 1 - k
            v == IF t <= n - 3 THEN <<t + 2>> ELSE f[t]
        IN MkRec(1, "WR", 1, t, 1, Vec(v, <<1>>, v), cols)]

InitWide ==
    /\ columns \in {FullSchema, {"receiving_tds", "week"}}
    /\ current_week = 1
    /\ \E n \in (WideTeams - 4)..WideTeams :
          /\ \E f \in [(n - 2)..n -> {NaN, <<3>>, <<20>>}] :
                stats_df = WideTable(n, f, columns)
          /\ \E h, a \in {1, n - 1, n} :
                h # a /\ schedule_df = <<MkGame(1, h, a)>>

\* Receiving touchdowns allowed to receivers: team 1 five, team 2 nine,
\* team 3 two, whatever the receivers' passing and rushing touchdowns.
ScenarioRec(opp, ct, pt, rt) ==
    MkRec(1, "WR", 1, opp, 1,
          [Vec(pt, rt, <<ct>>) EXCEPT !["receiving_yards"] = <<10 * ct>>], FullSchema)

InitScenario ==
    /\ columns = FullSchema
    /\ current_week = 1
    /\ schedule_df \in {<<MkGame(1, 2, 1)>>, <<MkGame(1, 1, 3)>>}
    /\ \E pt \in [1..3 -> {NaN, <<0>>, <<1>>}], rt \in [1..3 -> {<<0>>, <<3>>}] :
          stats_df = <<ScenarioRec(1, 5, pt[1], rt[1]), ScenarioRec(2, 9, pt[2], rt[2]),
                       ScenarioRec(3, 2, pt[3], rt[3])>>

\* Tables that vary the players, their positions, teams and touchdowns, and
\* the columns present.
LeaderSchemas ==
    {FullSchema, {"passing_tds", "receiving_tds", "week"}, {"team_abbr"}, {}}

InitLeaders ==
    /\ columns \in LeaderSchemas
    /\ current_week = 1
    /\ schedule_df = <<>>
    /\ stats_df \in SeqsUpTo({MkRec(pl, pos, tm, 1, 1, Vec(<<2>>, <<1>>, c), columns) :
                                 pl \in Players, pos \in {"QB", "WR"}, tm \in {1, 2},
                                 c \in {NaN, <<1>>}}, MaxRecords)

\* Tables of one quarterback whose records differ in week and team and are
\* stored in any order.
InitTrades ==
    /\ columns = FullSchema
    /\ current_week \in Weeks
    /\ schedule_df = <<>>
    /\ stats_df \in SeqsUpTo({MkRec(1, "QB", tm, 3, week, Vec(<<2>>, <<1>>, NaN), columns) :
                                 tm \in {1, 2}, week \in Weeks}, MaxRecords)

\* A roster of n quarterbacks with one record each: the first n - 3 players
\* have k + 2 touchdowns, the last three vary.
WideRoster(n, f, cols) ==
    [k \in 1..n |->
        LET v == IF k <= n - 3 THEN <<k + 2>> ELSE f[k]
        IN MkRec(k, "QB", k, 1, 1, Vec(v, <<1>>, v), cols)]

InitRoster ==
    /\ columns \in {FullSchema, {"passing_tds", "week"}, {"recent_team"}}
    /\ current_week = 1
    /\ schedule_df = <<>>
    /\ \E n \in (WidePlayers - 2)..WidePlayers :
          \E f \in [(n - 2)..n -> {NaN, <<3>>, <<20>>}] :
             stats_df = WideRoster(n, f, columns)

\* Tables of two players of one position group, each with a series of up
\* to MaxSeries games whose statistic is null, negative, zero or positive.
\* The order of a player's games plays no part in the aggregations, so a
\* series is listed in one order only.
SeriesCells == {NaN, <<-1>>, <<0>>, <<1>>}

CellRank(cell) == IF IsNaN(cell) THEN -2 ELSE cell[1]

SeriesPool ==
    {s \in SeqsUpTo(SeriesCells, MaxSeries) :
        \A i, j \in DOMAIN s : i < j => CellRank(s[i]) <= CellRank(s[j])}

SeriesRecs(player, pos, s, cols) ==
    [i \in DOMAIN s |-> MkRec(player, pos, 1, 1, 1, [c \in MeasureNames |-> s[i]], cols)]

SeriesSchemas ==
    {<<"QB", FullSchema>>, <<"QB", FullSchema \ {"passing_yards"}>>,
     <<"QB", FullSchema \ {"passing_yards", "fantasy_points_ppr"}>>,
     <<"WR", FullSchema>>, <<"WR", FullSchema \ {"fantasy_points_ppr"}>>}

InitSeries ==
    /\ current_week = 1
    /\ schedule_df = <<>>
    /\ \E ps \in SeriesSchemas, s1, s2 \in SeriesPool :
          /\ columns = ps[2]
          /\ stats_df = SeriesRecs(1, ps[1], s1, ps[2]) \o SeriesRecs(2, ps[1], s2, ps[2])

\* The betting methods take their arguments from the call, not from the
\* tables.
InitNoTables ==
    /\ columns = {}
    /\ current_week = 1
    /\ schedule_df = <<>>
    /\ stats_df = <<>>

\* Tables of quarterbacks and receivers and one game of the week, for the
\* weak_defenses loop.
InitLoop ==
    /\ columns = FullSchema
    /\ current_week = 1
    /\ schedule_df = <<MkGame(1, 1, 2)>>
    /\ \E wr \in [Teams -> 0..2], qb \in [Teams -> 0..1] :
          stats_df = AgainstTeams(NumTeams, wr, qb)

\* A league of n teams for the best bets: team t has a receiver t and a
\* quarterback n + t, each with one record against the next team, with t
\* passing touchdowns, so that team 1 allows the most, then team n, and
\* team 2 the fewest.  Team 1 has a second receiver without touchdowns.
\* The fantasy points of the players of teams 1, 2 and n vary, and the
\* week's game is between two of these teams, with or without a game of
\* another week after it.
SlateRec(player, pos, tm, n, tds, points, cols) ==
    MkRec(player, pos, tm, (tm % n) + 1, 1,
          [Vec(tds, <<1>>, NaN) EXCEPT !["fantasy_points_ppr"] = points], cols)

RECURSIVE SlateTable(_, _, _, _, _)
SlateTable(t, n, wr, qb, cols) ==
    IF t = 0 THEN <<>>
    ELSE SlateTable(t - 1, n, wr, qb, cols)
         \o <<SlateRec(t, "WR", t, n, <<t>>, IF t \in DOMAIN wr THEN wr[t] ELSE <<1>>, cols),
              SlateRec(n + t, "QB", t, n, <<t>>, IF t \in DOMAIN qb THEN qb[t] ELSE <<1>>, cols)>>

SlateSchemas ==
    {FullSchema, FullSchema \ {"fantasy_points_ppr"}, FullSchema \ {"recent_team"}}

InitSlate ==
    /\ columns \in SlateSchemas
    /\ current_week = 1
    /\ \E n \in {SlateTeams} :
          /\ \E h, a \in {1, 2, n} :
                /\ h # a
                /\ schedule_df \in {<<MkGame(1, h, a)>>,
                                    <<MkGame(1, h, a), MkGame(MaxWeek, a, h)>>}
          /\ \E wr \in [{1, 2, n} -> {NaN, <<1>>, <<2>>}], qb \in [{1, 2, n} -> {<<1>>, <<2>>}],
                second \in {NaN, <<1>>, <<2>>} :
                stats_df = SlateTable(n, n, wr, qb, columns)
                           \o <<SlateRec(2 * n + 1, "WR", 1, n, NaN, second, columns)>>

Init == InitSchemas /\ InitDerived

InitDefense == (InitValues \/ InitWeeks \/ InitColumns) /\ InitDerived

InitGames == InitMatchups /\ InitDerived

InitLeague == InitWide /\ InitDerived

InitRankings == InitScenario /\ InitDerived

InitScorers == (InitLeaders \/ InitTrades) /\ InitDerived

InitSquad == InitRoster /\ InitDerived

InitGamesPlayed == InitSeries /\ InitDerived

InitBets == InitNoTables /\ InitDerived

InitTasks == InitLoop /\ InitDerived

InitPlays == InitSlate /\ InitDerived

Spec == Init /\ [][Next]_vars

SpecDefense == InitDefense /\ [][NextDefense]_vars

SpecMatchups == InitGames /\ [][NextMatchups]_vars

SpecWide == InitLeague /\ [][NextMatchups]_vars

SpecRankings == InitRankings /\ [][NextRankings]_vars

SpecLeaders == InitScorers /\ [][NextLeaders]_vars

SpecRoster == InitSquad /\ [][NextLeaders]_vars

SpecConsistency == InitGamesPlayed /\ [][NextConsistency]_vars

SpecOdds == InitBets /\ [][NextOdds]_vars

SpecTasks == InitTasks /\ [][NextTasks]_vars

SpecProps == InitBets /\ [][NextProps]_vars

SpecBets == InitPlays /\ [][NextBets]_vars

\* ------------------------------------------------------------ properties
\* The records the time radio of tab2 and tab4 keeps.
InWindow(r) ==
    \/ "week" \notin columns
    \/ time_filter = "Season Total"
    \/ time_filter = "Week Only" /\ r.vals["week"] = current_week
    \/ time_filter = "Last 3 Weeks" /\ r.vals["week"] >= current_week - 2

\* The places in stats_df of the records of a position group.
PositionRecords(p) == {i \in DOMAIN stats_df : stats_df[i].position \in positions[p]}

\* The same, among the records the time radio keeps.
Counted(p) == {i \in PositionRecords(p) : InWindow(stats_df[i])}

\* The total of a measure over the records at the places I, a NaN counted as 0.
RECURSIVE CellTotal(_, _)
CellTotal(I, col) ==
    IF I = {} THEN 0
    ELSE LET i == CHOOSE i \in I : TRUE
         IN (IF stats_df[i].vals[col] = NaN THEN 0 ELSE stats_df[i].vals[col][1])
            + CellTotal(I \ {i}, col)

\* The total of a column over the rows of a derived table.
RECURSIVE ColumnTotal(_, _)
ColumnTotal(rows, name) ==
    IF rows = <<>> THEN 0 ELSE Head(rows)[name] + ColumnTotal(Tail(rows), name)

HasMeasure == columns \cap Range(MeasureCols) # {}

HasTeamCol == columns \cap Range(TeamCols) # {}

\* The defense table of tab2 has one row per opponent of the counted records.
DefenseRowsMatch ==
    LET opponents == {stats_df[i].opponent_team : i \in Counted(position)}
    IN /\ Len(defense_stats.rows) = Cardinality(opponents)
       /\ {defense_stats.rows[k]["Defense"] : k \in DOMAIN defense_stats.rows} = opponents

\* C1 (as stated): the defense table has exactly one row per distinct
\* opponent_team among the records whose position is in the code set, for
\* any table of records.
C1_OneRowPerOpponentAlways == pc = "tab2" => DefenseRowsMatch

\* C1: when at least one of the measure columns get_defense_stats asks for
\* is present, the defense table has exactly one row per distinct
\* opponent_team among the records whose position is in the code set (none
\* missing, none twice, no other team); when none is present the table is
\* empty.
C1_OneRowPerOpponent ==
    pc = "tab2" => IF HasMeasure THEN DefenseRowsMatch ELSE defense_stats = EmptyFrame

C1_TwoRecordsOneRow ==
    /\ pc = "tab2"
    /\ HasMeasure
    /\ Cardinality(Counted(position)) = 2
    /\ Len(defense_stats.rows) = 1
    /\ Len(stats_df) = 2

\* The tables of analysis.py computed so far, by position group.
AnalysisTables ==
    LET done == CASE pc = "qb_defense" -> 1
                  [] pc = "rb_defense" -> 2
                  [] pc = "wr_defense" -> 3
                  [] pc = "te_defense" -> 4
                  [] OTHER -> 0
        n == IF raised THEN done - 1 ELSE done
        all == [QB |-> qb_defense, RB |-> rb_defense, WR |-> wr_defense, TE |-> te_defense]
    IN [p \in {PositionNames[k] : k \in 1..n} |-> all[p]]

\* C2: every summed measure column of a defense table totals, over all rows,
\* what the measure totals over the position-filtered records, a missing
\* value counted as 0: for get_defense_stats in tab2 and for the _sum
\* columns of analyze_defense_vs_position.
C2_TotalsConserved ==
    /\ pc = "tab2" =>
          \A c \in Range(MeasureCols) \cap columns :
              Title(c) \in Range(defense_stats.columns) =>
                  ColumnTotal(defense_stats.rows, Title(c)) = CellTotal(Counted(position), c)
    /\ \A p \in DOMAIN AnalysisTables :
          \A k \in DOMAIN StatColumns[p] :
              ColumnTotal(AnalysisTables[p].rows, StatColumns[p][k][1] \o "_sum")
                  = CellTotal(PositionRecords(p), StatColumns[p][k][1])

C2_TwoTeamsWithNaN ==
    /\ pc = "tab2"
    /\ Len(defense_stats.rows) = 2
    /\ "Passing Tds" \in Range(defense_stats.columns)
    /\ \E i \in Counted(position) : stats_df[i].vals["passing_tds"] = NaN
    /\ ColumnTotal(defense_stats.rows, "Passing Tds") > 0

\* The scheduled games of the selected week.
WeekGames == {schedule_df[i] : i \in {j \in DOMAIN schedule_df : schedule_df[j].week = current_week}}

\* The flags a game should get: one for each offense and position whose
\* opponent is in the position's weak list, with the opponent's place.
DueFlags(g) ==
    UNION {{[game |-> g, offense_team |-> side[1], position |-> p, rank |-> k] :
                k \in {k \in DOMAIN weak_defenses[p] : weak_defenses[p][k] = side[2]}} :
           side \in {<<g.away_team, g.home_team>>, <<g.home_team, g.away_team>>},
           p \in DOMAIN weak_defenses}

FlagsOf(g) == {f \in Range(matchup_flags) : f.game = g}

\* The flags shown are the due flags, each once.
C3_FlagsAreDue ==
    /\ Range(matchup_flags) = UNION {DueFlags(g) : g \in WeekGames}
    /\ Len(matchup_flags) = Cardinality(Range(matchup_flags))

\* The home team heads the WR list and the away team is in no list.
C3_Scenario(g) ==
    /\ "WR" \in DOMAIN weak_defenses
    /\ weak_defenses["WR"] # <<>>
    /\ weak_defenses["WR"][1] = g.home_team
    /\ \A p \in DOMAIN weak_defenses : g.away_team \notin Range(weak_defenses[p])

C3_TheFlag(g) ==
    [game |-> g, offense_team |-> g.away_team, position |-> "WR", rank |-> 1]

\* C3 (as stated): a flag for an offense and a position iff the opponent is
\* in the position's weak list, with the 1-based place; and with the home
\* team first in the WR list and the away team in no list the game gets
\* exactly one flag, (away, WR, 1).
C3_ExactlyOneFlag ==
    pc = "tab3" =>
        /\ C3_FlagsAreDue
        /\ \A g \in WeekGames : C3_Scenario(g) => FlagsOf(g) = {C3_TheFlag(g)}

\* C3: for every game of the selected week and every position group a flag
\* is shown for an offense iff its opponent is in that position's weak
\* list, carrying the opponent's 1-based place in the list; with the home
\* team first in the WR list and the away team in no list, the game has
\* exactly one WR flag, (away, WR, 1), every flag of the game is for the
\* away offense, and it is the game's only flag when the home team is in no
\* other position's list.
C3_FlagIffOpponentWeak ==
    pc = "tab3" =>
        /\ C3_FlagsAreDue
        /\ \A g \in WeekGames : C3_Scenario(g) =>
              /\ {f \in FlagsOf(g) : f.position = "WR"} = {C3_TheFlag(g)}
              /\ \A f \in FlagsOf(g) : f.offense_team = g.away_team
              /\ (\A p \in DOMAIN weak_defenses \ {"WR"} :
                      g.home_team \notin Range(weak_defenses[p]))
                    => FlagsOf(g) = {C3_TheFlag(g)}

C3_OnlyFlagOfGame ==
    /\ pc = "tab3"
    /\ \E g \in WeekGames : C3_Scenario(g) /\ FlagsOf(g) = {C3_TheFlag(g)}
    /\ Len(weak_defenses["WR"]) = 2

\* The measure the weak lists are sorted on: the first touchdown column.
SortMeasure ==
    IF "passing_tds" \in columns THEN "passing_tds"
    ELSE IF "rushing_tds" \in columns THEN "rushing_tds"
    ELSE "receiving_tds"

\* What a team allowed to a position group, over all records.
Allowed(p, t) ==
    CellTotal({i \in PositionRecords(p) : stats_df[i].opponent_team = t}, SortMeasure)

\* C4: the weak list of a position group holds min(10, number of teams of
\* the defense table) distinct teams, from the highest allowed measure to
\* the lowest; a team left out allowed no more than any team of the list;
\* and every rank of a flag is in 1..10.
C4_WeakListIsTopTen ==
    pc = "tab3" =>
        /\ \A p \in DOMAIN weak_defenses :
              LET list == weak_defenses[p]
                  teams == {stats_df[i].opponent_team : i \in PositionRecords(p)}
              IN /\ Len(list) = Min(TopDefenses, Cardinality(teams))
                 /\ Range(list) \subseteq teams
                 /\ Cardinality(Range(list)) = Len(list)
                 /\ \A i, j \in DOMAIN list : i < j => Allowed(p, list[i]) >= Allowed(p, list[j])
                 /\ \A t \in teams \ Range(list) : \A u \in Range(list) :
                        Allowed(p, t) <= Allowed(p, u)
        /\ \A k \in DOMAIN matchup_flags : matchup_flags[k].rank \in 1..TopDefenses

C4_TenthPlaceFlag ==
    /\ pc = "tab3"
    /\ "WR" \in DOMAIN weak_defenses
    /\ Len(weak_defenses["WR"]) = TopDefenses
    /\ Cardinality({stats_df[i].opponent_team : i \in PositionRecords("WR")}) > TopDefenses
    /\ \E k \in DOMAIN matchup_flags : matchup_flags[k].rank = TopDefenses

\* C5: with receiving touchdowns allowed to receivers of 5 by team 1, 9 by
\* team 2 and 2 by team 3, the WR ranking is team 2, team 1, team 3,
\* whatever the passing and rushing touchdowns: in the weak list of tab3 and
\* in the worst-defenses table of tab2.
C5_ReceiversRankedByReceivingTds ==
    /\ (pc = "tab3" /\ "WR" \in DOMAIN weak_defenses) => weak_defenses["WR"] = <<2, 1, 3>>
    /\ (pc = "tab2" /\ position = "WR") => DefenseList(worst_defenses) = <<2, 1, 3>>

\* C6: teams with the same value of the sort measure come in alphabetical
\* order of team code in the worst-defenses and the best-defenses tables.
C6_TiesAlphabetical ==
    (pc = "tab2" /\ sort_col # "none") =>
        /\ \A i, j \in DOMAIN worst_defenses :
              (i < j /\ worst_defenses[i][sort_col] = worst_defenses[j][sort_col])
                  => worst_defenses[i]["Defense"] < worst_defenses[j]["Defense"]
        /\ \A i, j \in DOMAIN best_defenses :
              (i < j /\ best_defenses[i][sort_col] = best_defenses[j][sort_col])
                  => best_defenses[i]["Defense"] < best_defenses[j]["Defense"]

\* The measure columns the QB call of analyze_defense_vs_position asks for.
RequestedQB == {StatColumns["QB"][k][1] : k \in DOMAIN StatColumns["QB"]}

\* C7: when a requested measure column is absent while other requested
\* measures are present, the defense aggregation does not raise and returns
\* a table with the other measures' columns and no column for the absent
\* one: for get_defense_stats in tab2 and for the QB call of
\* analyze_defense_vs_position.
C7_AbsentColumnSkipped ==
    /\ (pc = "tab2" /\ HasMeasure /\ ~(Range(MeasureCols) \subseteq columns)) =>
          /\ ~raised
          /\ \A c \in Range(MeasureCols) :
                c \in columns <=> Title(c) \in Range(defense_stats.columns)
    /\ (pc = "qb_defense" /\ RequestedQB \cap columns # {}
                          /\ ~(RequestedQB \subseteq columns)) =>
          /\ ~raised
          /\ \A c \in RequestedQB :
                c \in columns <=> (c \o "_sum") \in Range(qb_defense.columns)

\* C8: when the table has none of the measure columns get_defense_stats
\* asks for, tab2 gets an empty defense table and shows no ranking, tab3
\* builds no weak list and shows no flag, and neither raises.
C8_NoMeasureNoRanking ==
    ~HasMeasure =>
        /\ pc = "tab2" =>
              /\ ~raised
              /\ defense_stats = EmptyFrame
              /\ worst_defenses = <<>>
              /\ best_defenses = <<>>
        /\ pc = "tab3" =>
              /\ ~raised
              /\ weak_defenses = NoMap
              /\ matchup_flags = <<>>

C8_GameOfListedOpponent ==
    /\ ~HasMeasure
    /\ pc = "tab3"
    /\ games # <<>>
    /\ \E i \in PositionRecords("QB") : stats_df[i].opponent_team = games[1].home_team

\* The counted records of a player.
PlayerRecords(p, player) ==
    {i \in Counted(p) : stats_df[i].player_display_name = player}

\* C9: a player's Total TDs is passing_tds + rushing_tds for the QB group
\* and rushing_tds + receiving_tds for the other groups, summed over the
\* player's records.
C9_TotalTdsByGroup ==
    (pc = "tab4" /\ {"passing_tds", "rushing_tds", "receiving_tds"} \subseteq columns) =>
        \A p \in DOMAIN leaders : \A k \in DOMAIN leaders[p].rows :
            LET row == leaders[p].rows[k]
                mine == PlayerRecords(p, row["Player"])
            IN row["Total TDs"] =
                  IF p = "QB"
                  THEN CellTotal(mine, "passing_tds") + CellTotal(mine, "rushing_tds")
                  ELSE CellTotal(mine, "rushing_tds") + CellTotal(mine, "receiving_tds")

\* The leader table of a group, before the sort and the truncation, has one
\* row per player of the counted records, every measure summed with a NaN
\* as 0, and no Team column when the records have no team-like column.
LeaderRowsMatch(p) ==
    LET table == leaders[p]
        players == {stats_df[i].player_display_name : i \in Counted(p)}
    IN /\ Len(table.rows) = Cardinality(players)
       /\ {table.rows[k]["Player"] : k \in DOMAIN table.rows} = players
       /\ \A k \in DOMAIN table.rows : \A c \in Range(MeasureCols) \cap columns :
              table.rows[k][Renamed(c)] = CellTotal(PlayerRecords(p, table.rows[k]["Player"]), c)
       /\ ~HasTeamCol => "Team" \notin Range(table.columns)

LatestRecord(p, player) ==
    LET mine == PlayerRecords(p, player)
        top == CHOOSE w \in {stats_df[i].vals["week"] : i \in mine} :
                   \A i \in mine : stats_df[i].vals["week"] <= w
    IN CHOOSE i \in mine :
          /\ stats_df[i].vals["week"] = top
          /\ \A j \in mine : stats_df[j].vals["week"] = top => j <= i

\* C11: the team shown for a player in the leader table is the team of the
\* player's record with the highest week in the filtered window, whatever
\* the order of the records in the table; among records of that week the
\* later row wins.
C11_TeamOfLatestWeek ==
    (pc = "tab4" /\ HasTeamCol /\ "week" \in columns) =>
        \A p \in DOMAIN leaders : \A k \in DOMAIN leaders[p].rows :
            LET row == leaders[p].rows[k]
            IN row["Team"] = stats_df[LatestRecord(p, row["Player"])].vals[TeamColOf(columns)[1]]

\* The value a leader row has for the selected key: the Total TDs, Total
\* Yards or Fantasy Pts of the row, 0 when the table has no such column.
LeaderKey(row) ==
    LET want == CASE sort_option = "Touchdowns" -> "Total TDs"
                  [] sort_option = "Yards" -> "Total Yards"
                  [] OTHER -> "Fantasy Pts"
    IN IF want \in DOMAIN row THEN row[want] ELSE 0

\* C12: the leader table returned for a position group has at most 15
\* rows, all of them rows of the group's players, from the highest
\* selected key (total touchdowns, total yards or fantasy points) to the
\* lowest, and a player left out has a key no greater than any player kept.
C12_TopFifteenByKey ==
    pc = "tab4" =>
        \A p \in DOMAIN leader_tables :
            LET all == leaders[p].rows
                kept == leader_tables[p].rows
            IN /\ Len(kept) = Min(TopLeaders, Len(all))
               /\ Range(kept) \subseteq Range(all)
               /\ Cardinality({kept[k]["Player"] : k \in DOMAIN kept}) = Len(kept)
               /\ \A i, j \in DOMAIN kept : i < j => LeaderKey(kept[i]) >= LeaderKey(kept[j])
               /\ \A r \in Range(all) \ Range(kept) : \A q \in Range(kept) :
                      LeaderKey(r) <= LeaderKey(q)

C12_TieAtFifteenth ==
    /\ pc = "tab4"
    /\ sort_option = "Touchdowns"
    /\ Len(leaders["QB"].rows) > TopLeaders
    /\ Len(leader_tables["QB"].rows) = TopLeaders
    /\ "Total TDs" \in Range(leader_tables["QB"].columns)
    /\ \E r \in Range(leaders["QB"].rows) \ Range(leader_tables["QB"].rows) :
          LeaderKey(r) = LeaderKey(leader_tables["QB"].rows[TopLeaders])

\* The consistency tab has run, in nfl_app.py or in pages/1_NFL.py.
ConsistencyRan == pc \in {"tab5", "page_tab4"}

\* The places in stats_df of the games of a player of the selected group
\* that have a value of the analysed statistic.
GamesWithStat(player) ==
    LET stat_col == stat_col_of(consistency_position, columns)
    IN {i \in PositionRecords(consistency_position) :
           /\ stats_df[i].player_display_name = player
           /\ stat_col \in columns
           /\ ~IsNaN(stats_df[i].vals[stat_col])}

GroupPlayers ==
    {stats_df[i].player_display_name : i \in PositionRecords(consistency_position)}

Listed == {player_consistency[k]["Player"] : k \in DOMAIN player_consistency}

\* C13: the consistency result of a position group has one profile for
\* each player of the group with at least 3 records of the analysed
\* statistic and no profile for any other player.
C13_ListedIffThreeGames ==
    ConsistencyRan =>
        /\ Listed = {pl \in GroupPlayers : Cardinality(GamesWithStat(pl)) >= MinGames}
        /\ Cardinality(Listed) = Len(player_consistency)
        /\ \A k \in DOMAIN player_consistency :
              player_consistency[k]["Games"] =
                  Cardinality(GamesWithStat(player_consistency[k]["Player"]))

C13_ThirdGameWithoutStat ==
    /\ pc = "tab5"
    /\ Listed = {1}
    /\ Cardinality(GamesWithStat(2)) = MinGames - 1
    /\ Cardinality({i \in DOMAIN stats_df : stats_df[i].player_display_name = 2}) = MinGames

\* 0 <= rating <= 100 for a rating 100 - 100 * sign * sqrt(num / den).
RatingInRange(rating) ==
    /\ rating.kind = "num"
    /\ rating.sign >= 0
    /\ rating.num <= rating.den

\* floor <= average <= ceiling, the average being the fraction <<sum, count>>.
AverageInRange(row) ==
    /\ row["Min"][1] * row["Avg"][2] <= row["Avg"][1]
    /\ row["Avg"][1] <= row["Max"][1] * row["Avg"][2]

\* C14: every consistency profile of the result has a rating between 0
\* and 100 and an average between its floor and its ceiling, whatever
\* the per-game values are (zero and negative values included).
C14_RatingAndAverageInRange ==
    ConsistencyRan =>
        \A k \in DOMAIN player_consistency :
            /\ RatingInRange(player_consistency[k]["Consistency Rating"])
            /\ AverageInRange(player_consistency[k])

\* Two CV values are the same number.
SameCv(a, b) ==
    /\ a.kind = b.kind
    /\ a.kind = "num" => (RootLeq(a, b) /\ RootLeq(b, a))

\* The largest CV among the listed players.
ListedMaxCv == CvMax({player_consistency[k]["CV"] : k \in DOMAIN player_consistency})

\* rating = 0 for a rating 100 - 100 * sign * sqrt(num / den).
RatingIsZero(rating) ==
    /\ rating.kind = "num"
    /\ rating.sign = 1
    /\ rating.num = rating.den

\* C15: the maximum CV that scales the ratings is the maximum over the
\* listed players only (those with at least 3 games), so an unlisted
\* player has no influence on a listed rating and the listed player with
\* the largest CV has rating 0.
C15_MaxCvOverListed ==
    (ConsistencyRan /\ player_consistency # <<>>) =>
        /\ SameCv(max_cv, ListedMaxCv)
        /\ \A k \in DOMAIN player_consistency :
              SameCv(player_consistency[k]["CV"], ListedMaxCv) =>
                  RatingIsZero(player_consistency[k]["Consistency Rating"])

\* C16: when every player of the selected position group has fewer than
\* 3 games, the consistency analysis ends with an empty result and
\* without an error: the metric steps after the games filter do not fail
\* on the empty table.
C16_EmptyResultNoError ==
    (ConsistencyRan /\ \A pl \in GroupPlayers : Cardinality(GamesWithStat(pl)) < MinGames) =>
        /\ player_consistency = <<>>
        /\ ~raised

\* A method of BettingAnalyzer was called with odds of 0: as the odds
\* argument, or as the odds of one of the bets of a parlay.
CalledWithZeroOdds ==
    /\ pc = "betting"
    /\ IF call.op = "parlay_calculator"
       THEN \E i \in DOMAIN call.bets : call.bets[i] = 0
       ELSE call.american_odds = 0

\* C17: every odds operation (calculate_implied_probability, calculate_ev,
\* kelly_criterion, parlay_calculator) rejects odds of exactly 0: none of
\* them returns a computed number for odds 0.
C17_ZeroOddsRejected ==
    CalledWithZeroOdds => returned.kind # "value"

\* C18: calculate_implied_probability returns 100 * (-odds) / (-odds + 100)
\* for odds < 0 and 100 * 100 / (odds + 100) for odds >= 0, and the
\* percentage returned lies strictly between 0 and 100 for every odds value.
C18_ImpliedStrictlyInside ==
    (pc = "betting" /\ call.op = "calculate_implied_probability") =>
        LET odds == call.american_odds
            v == returned.value
        IN /\ returned.kind = "value"
           /\ odds < 0 => v[1] * (-odds + 100) = 100 * (-odds) * v[2]
           /\ odds >= 0 => v[1] * (odds + 100) = 100 * 100 * v[2]
           /\ FLess(Whole(0), v)
           /\ FLess(v, Whole(100))

\* C19: the implied probability of -110 is 100 * 110 / 210 (52.38%) and
\* that of +130 is 100 * 100 / 230 (43.48%), and the two implied
\* probabilities of a market priced -110 on both sides sum to more than
\* 100%.
C19_HouseEdge ==
    /\ (pc = "betting" /\ call.op = "calculate_implied_probability") =>
          /\ call.american_odds = -110 =>
                /\ returned.value[1] * 210 = 100 * 110 * returned.value[2]
                /\ FLeq(Frac(5238, 100), returned.value)
                /\ FLess(returned.value, Frac(5239, 100))
          /\ call.american_odds = 130 =>
                /\ returned.value[1] * 230 = 100 * 100 * returned.value[2]
                /\ FLeq(Frac(4347, 100), returned.value)
                /\ FLess(returned.value, Frac(4348, 100))
    /\ (pc = "game_lines" /\ call.favorite_odds = -110 /\ call.underdog_odds = -110) =>
          FLess(Whole(100), FAdd(returned.fav_implied, returned.dog_implied))

C19_BothSidesMinus110 ==
    /\ pc = "game_lines"
    /\ call.favorite_odds = -110
    /\ call.underdog_odds = -110
    /\ returned.fav_implied = Frac(11000, 210)
    /\ returned.dog_implied = returned.fav_implied

\* The full-Kelly share (b*p - q) / b of a bet, b being the profit per
\* unit staked.
KellyShare(p, odds) ==
    LET b == IF odds < 0 THEN Frac(100, -odds) ELSE Frac(odds, 100)
    IN FDiv(FSub(FMul(b, p), FSub(Whole(1), p)), b)

\* C20: for a win probability in [0, 1], odds other than 0 and a
\* bankroll of at least 0, kelly_criterion returns bankroll * fraction *
\* max(0, (b*p - q) / b), which is never negative and never more than
\* fraction * bankroll; for win_prob = 0.55, odds = -110, bankroll = 1000
\* and fraction = 0.25 it is strictly between 0 and 250.
C20_KellyStake ==
    (pc = "betting" /\ call.op = "kelly_criterion" /\ call.american_odds # 0) =>
        LET share == KellyShare(call.win_prob, call.american_odds)
            cap == FMul(call.bankroll, call.kelly_fraction)
        IN /\ returned.kind = "value"
           /\ returned.value =
                 FMul(cap, IF FLeq(share, Whole(0)) THEN Whole(0) ELSE share)
           /\ FLeq(Whole(0), returned.value)
           /\ FLeq(returned.value, cap)
           /\ (call.win_prob = Frac(55, 100) /\ call.american_odds = -110
               /\ call.bankroll = Whole(1000) /\ call.kelly_fraction = Frac(1, 4)) =>
                 (FLess(Whole(0), returned.value) /\ FLess(returned.value, Whole(250)))

C20_QuarterKellyAtMinus110 ==
    /\ pc = "betting"
    /\ call = [op |-> "kelly_criterion", win_prob |-> Frac(55, 100), american_odds |-> -110,
               bankroll |-> Whole(1000), kelly_fraction |-> Frac(1, 4)]
    /\ returned = Returns(Frac(55, 4))

\* parlay_calculator was called and returned its dict.
ParlayReturned ==
    /\ pc = "betting"
    /\ call.op = "parlay_calculator"
    /\ returned.kind = "value"

\* The decimal price and the implied probability (as a fraction of 1) of
\* one leg, and their products over the legs from the first leg on.
LegDecimal(odds) ==
    IF odds < 0 THEN Frac(-odds + 100, -odds) ELSE Frac(odds + 100, 100)

LegProbability(odds) ==
    IF odds < 0 THEN Frac(-odds, -odds + 100) ELSE Frac(100, odds + 100)

RECURSIVE DecimalProduct(_)
DecimalProduct(legs) ==
    IF legs = <<>> THEN Whole(1)
    ELSE FMul(LegDecimal(Head(legs)), DecimalProduct(Tail(legs)))

RECURSIVE ProbabilityProduct(_)
ProbabilityProduct(legs) ==
    IF legs = <<>> THEN Whole(1)
    ELSE FMul(LegProbability(Head(legs)), ProbabilityProduct(Tail(legs)))

\* C21: the combined decimal odds of a parlay are the product of the legs'
\* decimal odds and its combined probability the product of the legs'
\* implied probabilities; the combined American odds are positive exactly
\* when the combined decimal odds are at least 2.0 and negative otherwise;
\* payout_100 is (combined decimal odds - 1) * 100.
C21_ParlayProducts ==
    ParlayReturned =>
        LET r == returned.value
        IN /\ r.decimal_odds = DecimalProduct(call.bets)
           /\ r.implied_probability = FMul(ProbabilityProduct(call.bets), Whole(100))
           /\ FLess(Whole(0), r.combined_odds) <=> FLeq(Whole(2), r.decimal_odds)
           /\ FLess(r.combined_odds, Whole(0)) <=> FLess(r.decimal_odds, Whole(2))
           /\ r.payout_100 = FMul(FSub(r.decimal_odds, Whole(1)), Whole(100))

C21_TwoFavorites ==
    /\ ParlayReturned
    /\ call.bets = <<-300, -110>>
    /\ returned.value.decimal_odds = Frac(28, 11)
    /\ returned.value.combined_odds = Frac(1700, 11)

\* A list of legs without its i-th leg.
WithoutLeg(legs, i) == SubSeq(legs, 1, i - 1) \o SubSeq(legs, i + 1, Len(legs))

\* C22: for a non-empty list of legs, the combined implied probability
\* parlay_calculator returns is no greater than the implied probability of
\* any single leg, and no greater than what it returns for the list
\* without one of the legs: adding a leg never increases it.
C22_ParlayNoMoreLikely ==
    ParlayReturned =>
        \A i \in DOMAIN call.bets :
            /\ FLeq(returned.value.implied_probability,
                    calculate_implied_probability(call.bets[i]).value)
            /\ parlay_calculator(WithoutLeg(call.bets, i)).kind = "value" =>
                  FLeq(returned.value.implied_probability,
                       parlay_calculator(WithoutLeg(call.bets, i)).value.implied_probability)

C22_SecondLegLowers ==
    /\ ParlayReturned
    /\ call.bets = <<-110, 130>>
    /\ FLess(returned.value.implied_probability, calculate_implied_probability(130).value)
    /\ parlay_calculator(<<-110>>).kind = "value"
    /\ FLess(returned.value.implied_probability,
             parlay_calculator(<<-110>>).value.implied_probability)

\* The tables a tab shows are what its aggregation gives for the records
\* and the widget values of the state.
TablesFromRecords ==
    /\ pc = "tab2" =>
          LET ds == get_defense_stats(time_filtered(stats_df, columns, time_filter, current_week),
                                      columns, positions[position])
          IN IF sort_col = "none" THEN defense_stats = ds
             ELSE defense_stats \in sort_values(ds, sort_col)
    /\ pc = "tab4" =>
          \A p \in Range(PositionNames) :
              /\ leaders[p] = leaders_of(time_filtered(stats_df, columns, time_filter, current_week),
                                         columns, positions[p])
              /\ leader_tables[p] \in get_leaders(leaders[p], sort_option)
    /\ pc = "tab5" =>
          LET pos_df == isin_position(stats_df, positions[consistency_position])
              stat_col == stat_col_of(consistency_position, columns)
          IN player_consistency =
                IF pos_df = <<>> \/ stat_col \notin columns THEN <<>>
                ELSE games_filter(consistency_rows(pos_df, stat_col, TRUE))

TasksDone == pc = "tasks" /\ \A p \in Range(PositionNames) : task_pc[p] = "done"

LastThreeWeeks(p) ==
    {i \in PositionRecords(p) :
        /\ stats_df[i].vals["week"] >= current_week - 2
        /\ stats_df[i].vals["week"] <= current_week}

\* C25: with the "Last 3 Weeks" filter the defense table and the leader
\* tables are made of exactly the records whose week is in
\* current_week - 2 .. current_week; a record of a week after
\* current_week is not counted.
C25_LastThreeWeeksClosed ==
    (time_filter = "Last 3 Weeks" /\ "week" \in columns) =>
        /\ (pc = "tab2" /\ HasMeasure) =>
              {defense_stats.rows[k]["Defense"] : k \in DOMAIN defense_stats.rows}
                  = {stats_df[i].opponent_team : i \in LastThreeWeeks(position)}
        /\ (pc = "tab4" /\ (HasMeasure \/ HasTeamCol)) =>
              \A p \in Range(PositionNames) :
                  {leaders[p].rows[k]["Player"] : k \in DOMAIN leaders[p].rows}
                      = {stats_df[i].player_display_name : i \in LastThreeWeeks(p)}

\* parlay_calculator was called with at least one leg and no leg has
\* odds 0.
NonZeroLegs ==
    /\ pc = "betting"
    /\ call.op = "parlay_calculator"
    /\ call.bets # <<>>
    /\ \A i \in DOMAIN call.bets : call.bets[i] # 0

ImpliedShare(odds) == FDiv(calculate_implied_probability(odds).value, Whole(100))

C28_ParlayCompletes ==
    (pc = "betting" /\ call.op = "parlay_calculator") =>
        /\ (returned.kind = "value") <=> (DecimalProduct(call.bets) # Whole(1))
        /\ returned.kind # "value" => returned = Raises("ZeroDivisionError")
        /\ NonZeroLegs =>
              /\ \A i \in DOMAIN call.bets : FLess(Whole(1), LegDecimal(call.bets[i]))
              /\ returned.kind = "value"
        /\ call.bets = <<>> =>
              /\ DecimalProduct(call.bets) = Whole(1)
              /\ returned = Raises("ZeroDivisionError")

C28_NoLegsRaises ==
    /\ pc = "betting"
    /\ call = [op |-> "parlay_calculator", bets |-> <<>>]
    /\ returned = Raises("ZeroDivisionError")
    /\ raised

\* prop_bet_analysis was called.
PropCalled == pc = "betting" /\ call.op = "prop_bet_analysis"

\* The games of the history whose value is strictly above the line.
GamesOver ==
    {i \in DOMAIN call.player_stats :
        /\ ~IsNaN(call.player_stats[i])
        /\ call.player_stats[i][1] * call.prop_line[2] > call.prop_line[1]}

Shown == head(best_bets_df, TopPlays)

\* C30: every play of the best-bets list is about a game of the selected
\* week: its opponent is one team of the game and in the weak-defense
\* list of the play's position, its def_rank is the opponent's 1-based
\* place in that list, within 1..10, its team is the other team of the
\* game, and its confidence is High exactly when def_rank <= 5 and Medium
\* otherwise; the list shown is ordered by def_rank ascending, then by
\* average points descending.
C30_PlaysAreDue ==
    pc = "tab1" =>
        /\ \A k \in DOMAIN best_bets :
              LET bet == best_bets[k]
              IN /\ \E g \in WeekGames :
                       /\ g.game_type = "REG"
                       /\ \/ bet.opponent = g.home_team /\ bet.team = g.away_team
                          \/ bet.opponent = g.away_team /\ bet.team = g.home_team
                 /\ bet.position \in DOMAIN weak_defenses
                 /\ bet.opponent \in Range(weak_defenses[bet.position])
                 /\ weak_defenses[bet.position][bet.def_rank] = bet.opponent
                 /\ bet.def_rank \in 1..TopDefenses
                 /\ bet.confidence = "High" <=> bet.def_rank <= 5
                 /\ bet.confidence = "Medium" <=> bet.def_rank > 5
        /\ Range(Shown) \subseteq Range(best_bets)
        /\ Len(Shown) = Min(Len(best_bets), 10)
        /\ \A i, j \in DOMAIN Shown :
              i < j =>
                 /\ Shown[i].def_rank <= Shown[j].def_rank
                 /\ (Shown[i].def_rank = Shown[j].def_rank
                     /\ ~IsNaN(Shown[i].avg_points) /\ ~IsNaN(Shown[j].avg_points)) =>
                       Shown[i].avg_points[1] * Shown[j].avg_points[2]
                          >= Shown[j].avg_points[1] * Shown[i].avg_points[2]

C30_MediumAndHighPlays ==
    /\ pc = "tab1"
    /\ \E i, j, k \in DOMAIN best_bets_df :
          /\ i < j /\ j < k
          /\ best_bets_df[i].def_rank = best_bets_df[j].def_rank
          /\ best_bets_df[i].confidence = "High"
          /\ best_bets_df[i].avg_points = <<2, 1>>
          /\ best_bets_df[j].avg_points = <<1, 1>>
          /\ best_bets_df[k].confidence = "Medium"
          /\ best_bets_df[k].def_rank = SlateTeams
    /\ best_bets # best_bets_df

=============================================================================
